---- MODULE Spec2Model ----
(***************************************************************************)
(* A model of the Airtable MCP server (airtable_mcp/src/server.py): the    *)
(* migration runner (migrate_data with the nested generate_field_mapping), *)
(* the schema synchronizer (update_schema with the nested create_tables),  *)
(* generate_field_mapping and compare_schemas as tools of their own,       *)
(* api_call, and list_bases / list_tables.  One invocation per behaviour;  *)
(* every upstream call is one step that issues the request and a later     *)
(* step that takes the response and runs the handler up to its next        *)
(* request.                                                                *)
(***************************************************************************)
EXTENDS Integers, Sequences, FiniteSets, TLC

VARIABLES
    server_state,     \* [base_id, token]: the server's global configuration
    pc,               \* where the invocation stands
    args,             \* the arguments of the tool invocation
    calls,            \* the HTTP requests sent upstream, in issue order
    responses,        \* what api_call returned, in return order (in api_call
                      \* itself: what came back from the HTTP request)
    field_mapping,    \* migrate_data: the mapping, a sequence of <<source, target>>
    source_records,   \* migrate_data: the records fetched from the source table
    target_records,   \* migrate_data: the write set
    i,                \* migrate_data: the offset of the batch being written
    migrated_count,   \* migrate_data: the running count
    existing_tables,  \* update_schema: the live tables, as fetched
    ti,               \* update_schema: the index of the desired table in hand
    fj,               \* update_schema: the index of its field in hand
    fields_to_update, \* update_schema: the fields queued for the batched update
    update_results,   \* update_schema: the outcome lines collected so far
    base,             \* the handler's local copy of the current base
    result            \* the value returned to the caller

migrateLocals == <<field_mapping, source_records, target_records, i, migrated_count>>
schemaLocals == <<existing_tables, ti, fj, fields_to_update, update_results>>

vars == <<server_state, pc, args, base, calls, responses, migrateLocals,
          schemaLocals, result>>

-----------------------------------------------------------------------------
(* Bounds and universes *)

MaxRecords == 23
MaxMapLen == 2
batch_size == 10
DefaultMaxRecords == 100

FieldNames == {"Email", "email", "Name"}
TableNames == {"Contacts", "People"}
MissingTable == "Ghost"
Bases == {"", "appA"}
Tokens == {"", "pat"}

Min(a, b) == IF a < b THEN a ELSE b

\* str.lower() on the names of the universe
LowerIdentity(s) == s
LowerConstant(s) == "x"
Lower(s) ==
    CASE s = "Email" -> "email"
      [] s = "email" -> "email"
      [] s = "EMAIL" -> "email"
      [] s = "Name" -> "name"
      [] s = "Error Code" -> "error code"
      [] s = "CSV" -> "csv"
      [] OTHER -> s

\* Names in which the substring "Error" occurs, and names holding a "{"
NamesWithError == {"ErrorLog", "Error Code"}
NamesWithBrace == {"{Archive}"}

RECURSIVE SeqsUpTo(_, _)
SeqsUpTo(S, n) ==
    IF n = 0 THEN {<<>>}
    ELSE LET shorter == SeqsUpTo(S, n - 1)
         IN  shorter \cup {Append(s, x) : s \in {t \in shorter : Len(t) = n - 1}, x \in S}

\* The sequences over S of length at most n whose elements have distinct names
RECURSIVE NamedSeqsUpTo(_, _)
NamedSeqsUpTo(S, n) ==
    IF n = 0 THEN {<<>>}
    ELSE LET shorter == NamedSeqsUpTo(S, n - 1)
         IN  shorter \cup
                 UNION {{Append(s, x) : x \in {y \in S : \A k \in DOMAIN s : s[k].name # y.name}} :
                            s \in {t \in shorter : Len(t) = n - 1}}

Range(s) == {s[k] : k \in DOMAIN s}
Distinct(s) == \A a, b \in DOMAIN s : a # b => s[a] # s[b]

-----------------------------------------------------------------------------
(* Python dict and list helpers *)

\* d[k] = v on a dict kept as a sequence of <<key, value>> in insertion order
DictSet(d, k, v) ==
    IF \E n \in DOMAIN d : d[n][1] = k
    THEN [n \in DOMAIN d |-> IF d[n][1] = k THEN <<k, v>> ELSE d[n]]
    ELSE Append(d, <<k, v>>)

\* list.index(x): the first position of x
IndexOfLast(s, x) == CHOOSE n \in DOMAIN s : s[n] = x /\ \A m \in (n + 1)..Len(s) : s[m] # x
IndexOf(s, x) == CHOOSE n \in DOMAIN s : s[n] = x /\ \A m \in 1..(n - 1) : s[m] # x

\* f[k] = v on a dict whose order does not matter
Put(f, k, v) == [x \in (DOMAIN f) \cup {k} |-> IF x = k THEN v ELSE f[x]]

EmptyFields == [x \in {} |-> 0]

-----------------------------------------------------------------------------
(* Texts.  A returned string is a record: its fixed text ("literal") and   *)
(* the values formatted into it.                                           *)

NoBaseText == [literal |-> "Error: No base ID set. Please set AIRTABLE_BASE_ID in your .env file."]
AccessTablesErrorText(e) == [literal |-> "Error accessing tables: ", error |-> e]
SourceNotFoundText(t) == [literal |-> "Error: Source table '' not found.", table |-> t]
TargetNotFoundText(t) == [literal |-> "Error: Target table '' not found.", table |-> t]
NoMatchingFieldsText == [literal |-> "No matching fields found between the tables."]
MappingText(s, t, m) ==
    [literal |-> "Field mapping between '' and '':", source_table |-> s,
     target_table |-> t, mapping |-> m]
InvalidMappingJsonText == [literal |-> "Error: Invalid JSON format in mapping_json parameter."]
AccessSourceErrorText(e) == [literal |-> "Error accessing source table: ", error |-> e]
NoRecordsFoundText(s) == [literal |-> "No records found in source table ''.", source_table |-> s]
NoRecordsToMigrateText == [literal |-> "No records to migrate after applying field mapping."]
CreateErrorText(e) == [literal |-> "Error creating records in target table: ", error |-> e]
MigratedText(n, s, t) ==
    [literal |-> "Successfully migrated  records from '' to ''.", count |-> n,
     source_table |-> s, target_table |-> t]

\* The fixed texts in which "Error" occurs
LiteralsWithError ==
    {"Error: No base ID set. Please set AIRTABLE_BASE_ID in your .env file.",
     "Error accessing tables: ",
     "Error: Source table '' not found.",
     "Error: Target table '' not found.",
     "Error: Invalid JSON format in mapping_json parameter.",
     "Error accessing source table: ",
     "Error creating records in target table: ",
     "Error generating field mapping: "}

\* The names formatted into a text
EmbeddedNames(t) ==
    UNION {IF k = "mapping" THEN UNION {{p[1], p[2]} : p \in Range(t.mapping)}
           ELSE IF k \in {"source_table", "target_table", "table"} THEN {t[k]}
           ELSE {} : k \in DOMAIN t}

\* "Error" in text
ContainsError(t) ==
    \/ t.literal \in LiteralsWithError
    \/ EmbeddedNames(t) \cap NamesWithError # {}

\* text.find('{') and json.loads(text[json_start:]) of migrate_data:
\* "none" when the text holds no brace, "invalid" when the first brace is not
\* the one that opens the JSON document, else the mapping
ParseMappingText(t) ==
    IF "mapping" \notin DOMAIN t
    THEN [kind |-> "none"]
    ELSE IF {t.source_table, t.target_table} \cap NamesWithBrace # {}
         THEN [kind |-> "invalid"]
         ELSE [kind |-> "object", value |-> t.mapping]

-----------------------------------------------------------------------------
(* api_call *)

NoTokenError == [error |-> "No Airtable API token provided"]
UpstreamError == [error |-> "upstream"]

\* The request leaves only when a token is configured
ApiCall(req) == IF server_state.token = "" THEN calls ELSE Append(calls, req)

\* What api_call can return, given the bodies a successful request can yield
ApiOutcomes(bodies) ==
    IF server_state.token = "" THEN {NoTokenError} ELSE {UpstreamError} \cup bodies

TablesRequest(b) ==
    [method |-> "GET", endpoint |-> <<"meta/bases", b, "tables">>]
RecordsRequest(b, table, max) ==
    [method |-> "GET", endpoint |-> <<b, table>>, params |-> max]
CreateRecordsRequest(b, table, batch) ==
    [method |-> "POST", endpoint |-> <<b, table>>, data |-> batch]

-----------------------------------------------------------------------------
(* generate_field_mapping *)

RECURSIVE MatchFieldsIgnoringCaseFirst(_, _, _)
MatchFieldsIgnoringCaseFirst(source_field_names, target_field_names, mapping) ==
    IF source_field_names = <<>> THEN mapping
    ELSE LET source_name == Head(source_field_names)
             lower_targets == [n \in DOMAIN target_field_names |->
                                  Lower(target_field_names[n])]
             next ==
                 IF Lower(source_name) \in Range(lower_targets)
                 THEN DictSet(mapping, source_name,
                          target_field_names[IndexOf(lower_targets, Lower(source_name))])
                 ELSE mapping
         IN  MatchFieldsIgnoringCaseFirst(Tail(source_field_names), target_field_names, next)
RECURSIVE MatchFields(_, _, _)
MatchFields(source_field_names, target_field_names, mapping) ==
    IF source_field_names = <<>> THEN mapping
    ELSE LET source_name == Head(source_field_names)
             lower_targets == [n \in DOMAIN target_field_names |->
                                  Lower(target_field_names[n])]
             next ==
                 IF source_name \in Range(target_field_names)
                 THEN DictSet(mapping, source_name, source_name)
                 ELSE IF Lower(source_name) \in Range(lower_targets)
                      THEN DictSet(mapping, source_name,
                               target_field_names[IndexOf(lower_targets, Lower(source_name))])
                      ELSE mapping
         IN  MatchFields(Tail(source_field_names), target_field_names, next)

FindTable(tables, name) ==
    IF \E n \in DOMAIN tables : tables[n].name = name
    THEN <<tables[CHOOSE n \in DOMAIN tables :
                /\ tables[n].name = name
                /\ \A m \in 1..(n - 1) : tables[m].name # name]>>
    ELSE <<>>

FieldNamesOf(table) == [n \in DOMAIN table.fields |-> table.fields[n].name]

\* The text generate_field_mapping returns for a response of the metadata call
GenerateFieldMappingText(tables_result, source_table, target_table) ==
    IF "error" \in DOMAIN tables_result
    THEN AccessTablesErrorText(tables_result.error)
    ELSE LET source == FindTable(tables_result.tables, source_table)
             target == FindTable(tables_result.tables, target_table)
         IN  IF source = <<>> THEN SourceNotFoundText(source_table)
             ELSE IF target = <<>> THEN TargetNotFoundText(target_table)
             ELSE LET m == MatchFields(FieldNamesOf(source[1]), FieldNamesOf(target[1]), <<>>)
                  IN  IF m = <<>> THEN NoMatchingFieldsText
                      ELSE MappingText(source_table, target_table, m)


-----------------------------------------------------------------------------
(* migrate_data: inputs *)

\* The JSON objects a caller may pass as mapping_json: key order as written
ExplicitMappings ==
    {m \in SeqsUpTo(FieldNames \X FieldNames, MaxMapLen) :
        \A a, b \in DOMAIN m : a # b => m[a][1] # m[b][1]}

MappingJsons ==
    {[kind |-> "absent"], [kind |-> "invalid"]}
        \cup {[kind |-> "object", value |-> m] : m \in ExplicitMappings}

TablePairs ==
    {<<"Contacts", "People">>, <<MissingTable, "People">>, <<"Contacts", MissingTable>>}

\* ... and invocations without a mapping on tables whose names hold "Error"
\* or a brace
MigrateArgs ==
    {[tool |-> "migrate_data", source_table |-> p[1], target_table |-> p[2],
      mapping_json |-> mj, max_records |-> mr] :
        p \in TablePairs, mj \in MappingJsons, mr \in {1, DefaultMaxRecords}}
        \cup {[tool |-> "migrate_data", source_table |-> st, target_table |-> "People",
               mapping_json |-> [kind |-> "absent"], max_records |-> 1] :
                 st \in {"ErrorLog", "{Archive}"}}

\* Field lists of a table: distinct names, in declaration order
FieldLists == {fl \in SeqsUpTo(FieldNames, 2) : Distinct(fl)}

TableOf(name, fl) ==
    [name |-> name, id |-> name,
     fields |-> [n \in DOMAIN fl |-> [name |-> fl[n], id |-> fl[n], type |-> "singleLineText"]]]

\* The bodies the metadata call can return: the base holds Contacts and People
MigrateTablesBodies ==
    {[tables |-> <<TableOf("Contacts", sf), TableOf("People", tf)>>] :
        sf \in FieldLists, tf \in FieldLists}
        \cup {[tables |-> <<TableOf("ErrorLog", <<"Email">>), TableOf("{Archive}", <<"Email">>),
                            TableOf("People", <<"Email">>)>>],
              [tables |-> <<TableOf("Contacts", <<"Error Code">>),
                            TableOf("People", <<"Error Code">>)>>]}

\* n records whose field sets follow the pattern cyclically; the value of
\* field f of record j is <<j, f>>, so every cell is told apart
RecordsOf(pattern, n) ==
    [j \in 1..n |->
        [id |-> j,
         fields |-> [f \in pattern[((j - 1) % Len(pattern)) + 1] |-> <<j, f>>]]]

\* The shapes of the records of a long list
LongShapes == {{}, {"Email"}, {"Email", "email"}}

\* The record lists the source table can hold: all of one shape, every other
\* one empty, or two records of any two shapes
SourceLists ==
    {RecordsOf(<<s>>, n) : s \in LongShapes, n \in 0..MaxRecords}
        \cup {RecordsOf(<<s, {}>>, n) : s \in LongShapes, n \in 0..MaxRecords}
        \cup {RecordsOf(<<s, t>>, 2) : s \in SUBSET FieldNames, t \in SUBSET FieldNames}

\* The list endpoint returns at most maxRecords records
RecordsBodies(max) == {[records |-> r] : r \in {l \in SourceLists : Len(l) <= max}}

\* A create call answers with the records created, or with a body without them
CreateBodies(batch) == {[records |-> Len(batch)], [created |-> TRUE]}

-----------------------------------------------------------------------------
(* migrate_data: the handler *)

\* target_fields[target_field] = source_fields[source_field], over mapping.items()
RECURSIVE ProjectFieldsFirstWins(_, _, _)
ProjectFieldsFirstWins(source_fields, mapping, target_fields) ==
    IF mapping = <<>> THEN target_fields
    ELSE LET source_field == Head(mapping)[1]
             target_field == Head(mapping)[2]
         IN  ProjectFieldsFirstWins(source_fields, Tail(mapping),
                 IF source_field \in DOMAIN source_fields
                        /\ target_field \notin DOMAIN target_fields
                 THEN Put(target_fields, target_field, source_fields[source_field])
                 ELSE target_fields)
RECURSIVE ProjectFields(_, _, _)
ProjectFields(source_fields, mapping, target_fields) ==
    IF mapping = <<>> THEN target_fields
    ELSE LET source_field == Head(mapping)[1]
             target_field == Head(mapping)[2]
         IN  ProjectFields(source_fields, Tail(mapping),
                 IF source_field \in DOMAIN source_fields
                 THEN Put(target_fields, target_field, source_fields[source_field])
                 ELSE target_fields)

\* The write set: the non-empty projections, in source order
RECURSIVE TransformRecords(_, _)
TransformRecords(records, mapping) ==
    IF records = <<>> THEN <<>>
    ELSE LET target_fields == ProjectFields(Head(records).fields, mapping, EmptyFields)
             rest == TransformRecords(Tail(records), mapping)
         IN  IF DOMAIN target_fields # {}
             THEN <<[fields |-> target_fields]>> \o rest
             ELSE rest

\* target_records[i:i+batch_size]
BatchOneTooMany(records, offset) ==
    SubSeq(records, offset + 1, Min(offset + batch_size + 1, Len(records)))
Batch(records, offset) ==
    SubSeq(records, offset + 1, Min(offset + batch_size, Len(records)))

\* len(create_result.get("records", []))
CreatedCount(create_result) ==
    IF "records" \in DOMAIN create_result THEN create_result.records ELSE 0

\* "error" in create_result
CreateFailedNever(create_result) == FALSE
CreateFailed(create_result) == "error" \in DOMAIN create_result

Finish(text) ==
    /\ pc' = "done"
    /\ result' = text

\* Lines 812-835: the base check, the mapping argument, and the first request
MigrateStart ==
    /\ pc = "start"
    /\ args.tool = "migrate_data"
    /\ base' = server_state.base_id
    /\ UNCHANGED <<server_state, args, responses, source_records, target_records,
                   i, migrated_count, schemaLocals>>
    /\ IF server_state.base_id = ""
       THEN Finish(NoBaseText) /\ UNCHANGED <<calls, field_mapping>>
       ELSE CASE args.mapping_json.kind = "object" ->
                    /\ field_mapping' = args.mapping_json.value
                    /\ calls' = ApiCall(RecordsRequest(base', args.source_table,
                                                       args.max_records))
                    /\ pc' = "await_source"
                    /\ UNCHANGED result
              [] args.mapping_json.kind = "invalid" ->
                    Finish(InvalidMappingJsonText) /\ UNCHANGED <<calls, field_mapping>>
              [] args.mapping_json.kind = "absent" ->
                    \* generate_field_mapping reads the current base again
                    /\ calls' = ApiCall(TablesRequest(server_state.base_id))
                    /\ pc' = "await_tables"
                    /\ UNCHANGED <<result, field_mapping>>

\* Lines 756-835: generate_field_mapping from its metadata response on, and
\* what migrate_data makes of the text it returns
MigrateTablesReturn ==
    /\ pc = "await_tables"
    /\ args.tool = "migrate_data"
    /\ \E tables_result \in ApiOutcomes(MigrateTablesBodies) :
        LET mapping_result == GenerateFieldMappingText(tables_result,
                                  args.source_table, args.target_table)
            parsed == ParseMappingText(mapping_result)
        IN  /\ responses' = Append(responses, tables_result)
            /\ IF ContainsError(mapping_result)
               THEN Finish(mapping_result) /\ UNCHANGED <<calls, field_mapping>>
               ELSE IF parsed.kind = "invalid"
               THEN Finish(InvalidMappingJsonText) /\ UNCHANGED <<calls, field_mapping>>
               ELSE /\ field_mapping' =
                          IF parsed.kind = "object" THEN parsed.value ELSE field_mapping
                    /\ calls' = ApiCall(RecordsRequest(base, args.source_table,
                                                       args.max_records))
                    /\ pc' = "await_source"
                    /\ UNCHANGED result
    /\ UNCHANGED <<server_state, args, base, source_records, target_records,
                   i, migrated_count, schemaLocals>>

\* Lines 837-871: the source records, their projection, and the first batch
MigrateSourceReturn ==
    /\ pc = "await_source"
    /\ \E source_records_result \in ApiOutcomes(RecordsBodies(args.max_records)) :
        /\ responses' = Append(responses, source_records_result)
        /\ IF "error" \in DOMAIN source_records_result
           THEN /\ Finish(AccessSourceErrorText(source_records_result.error))
                /\ UNCHANGED <<calls, source_records, target_records>>
           ELSE /\ source_records' = source_records_result.records
                /\ IF source_records' = <<>>
                   THEN /\ Finish(NoRecordsFoundText(args.source_table))
                        /\ UNCHANGED <<calls, target_records>>
                   ELSE /\ target_records' = TransformRecords(source_records', field_mapping)
                        /\ IF target_records' = <<>>
                           THEN Finish(NoRecordsToMigrateText) /\ UNCHANGED calls
                           ELSE /\ calls' = ApiCall(CreateRecordsRequest(base,
                                                args.target_table, Batch(target_records', 0)))
                                /\ pc' = "await_create"
                                /\ UNCHANGED result
    /\ UNCHANGED <<server_state, args, base, field_mapping, i, migrated_count,
                   schemaLocals>>

\* Lines 873-878: one batch response, then the next batch or the summary
MigrateCreateReturn ==
    /\ pc = "await_create"
    /\ args.tool = "migrate_data"
    /\ \E create_result \in ApiOutcomes(CreateBodies(Batch(target_records, i))) :
        /\ responses' = Append(responses, create_result)
        /\ IF CreateFailed(create_result)
           THEN /\ Finish(CreateErrorText(create_result.error))
                /\ UNCHANGED <<calls, i, migrated_count>>
           ELSE /\ migrated_count' = migrated_count + CreatedCount(create_result)
                /\ i' = i + batch_size
                /\ IF i' < Len(target_records)
                   THEN /\ calls' = ApiCall(CreateRecordsRequest(base,
                                        args.target_table, Batch(target_records, i')))
                        /\ UNCHANGED <<pc, result>>
                   ELSE /\ Finish(MigratedText(migrated_count', args.source_table,
                                               args.target_table))
                        /\ UNCHANGED calls
    /\ UNCHANGED <<server_state, args, base, field_mapping, source_records,
                   target_records, schemaLocals>>

NoResult == [literal |-> ""]

InitMigrate ==
    /\ server_state \in [base_id : Bases, token : Tokens]
    /\ args \in MigrateArgs
    /\ pc = "start"
    /\ base = ""
    /\ calls = <<>>
    /\ responses = <<>>
    /\ field_mapping = <<>>
    /\ source_records = <<>>
    /\ target_records = <<>>
    /\ i = 0
    /\ migrated_count = 0
    /\ existing_tables = <<>>
    /\ ti = 0
    /\ fj = 0
    /\ fields_to_update = <<>>
    /\ update_results = <<>>
    /\ result = NoResult

NextMigrate ==
    \/ MigrateStart
    \/ MigrateTablesReturn
    \/ MigrateSourceReturn
    \/ MigrateCreateReturn

SpecMigrate == InitMigrate /\ [][NextMigrate]_vars


-----------------------------------------------------------------------------
(* Properties of migrate_data *)

PostCalls == SelectSeq(calls, LAMBDA c : c.method = "POST")

RECURSIVE ConcatBatches(_)
ConcatBatches(posts) ==
    IF posts = <<>> THEN <<>> ELSE Head(posts).data \o ConcatBatches(Tail(posts))

\* The sum of the record counts of the responses to the POST calls: the k-th
\* value api_call returned answers the k-th request sent
RECURSIVE SumReported(_)
SumReported(k) ==
    IF k = 0 THEN 0
    ELSE SumReported(k - 1)
            + (IF k \in DOMAIN calls /\ calls[k].method = "POST"
                    /\ "records" \in DOMAIN responses[k]
               THEN responses[k].records ELSE 0)

MigrationSucceeded ==
    pc = "done" /\ result.literal = "Successfully migrated  records from '' to ''."

\* Some batch call has returned an upstream error
BatchFailed ==
    \E k \in DOMAIN responses :
        k \in DOMAIN calls /\ calls[k].method = "POST" /\ "error" \in DOMAIN responses[k]

\* C1: the write set of n >= 1 records is written by ceil(n/10) create calls,
\* each of at most 10 records and all but the last of exactly 10, whose
\* concatenation in issue order is the write set; a call is sent only when
\* every earlier one has returned; and the count reported on success is the
\* sum of the counts of the batch responses.
C1_BatchAccounting ==
    LET n == Len(target_records)
        posts == PostCalls
        all == ConcatBatches(posts)
    IN  /\ Len(calls) <= Len(responses) + 1
        /\ \A k \in DOMAIN posts :
              /\ Len(posts[k].data) <= 10
              /\ Len(posts[k].data) >= 1
              /\ k < Len(posts) => Len(posts[k].data) = 10
              /\ posts[k].endpoint = <<base, args.target_table>>
        /\ Len(all) <= n
        /\ all = SubSeq(target_records, 1, Len(all))
        /\ MigrationSucceeded =>
              /\ n >= 1
              /\ Len(posts) = (n + 9) \div 10
              /\ all = target_records
              /\ result.count = SumReported(Len(responses))
              /\ result.count = migrated_count

\* C1 witness: 23 records written as 10, 10, 3 and reported as 23
C1_Witness ==
    /\ MigrationSucceeded
    /\ Len(target_records) = 23
    /\ [k \in DOMAIN PostCalls |-> Len(PostCalls[k].data)] = <<10, 10, 3>>
    /\ result.count = 23

\* C2: once a batch call has returned an upstream error no request follows
\* it: the failed call is the last one sent, so no later batch is attempted
\* and the failed batch is not sent again.
C2_NoCallAfterFailedBatch ==
    \A k \in DOMAIN responses :
        (k \in DOMAIN calls /\ calls[k].method = "POST" /\ "error" \in DOMAIN responses[k])
            => /\ Len(calls) = k
               /\ pc = "done"

\* C2 witness: 23 records, the second batch failed, the third was never sent
C2_Witness ==
    /\ pc = "done"
    /\ Len(target_records) = 23
    /\ Len(PostCalls) = 2
    /\ "error" \in DOMAIN responses[Len(responses)]
    /\ migrated_count = 10

\* C3: when a batch call fails, the result returned to the caller carries the
\* count of the records migrated by the batches before it.
C3_FailureCarriesPartialCount ==
    (pc = "done" /\ BatchFailed) =>
        /\ "count" \in DOMAIN result
        /\ result.count = migrated_count


\* The metadata call answered with both tables and no source field name
\* equals a target field name, case ignored: the derived mapping is empty
DerivedMappingEmpty ==
    /\ args.tool = "migrate_data"
    /\ args.mapping_json.kind = "absent"
    /\ Len(responses) >= 1
    /\ "tables" \in DOMAIN responses[1]
    /\ \E s, t \in DOMAIN responses[1].tables :
          /\ responses[1].tables[s].name = args.source_table
          /\ responses[1].tables[t].name = args.target_table
          /\ \A a \in DOMAIN responses[1].tables[s].fields,
                b \in DOMAIN responses[1].tables[t].fields :
                Lower(responses[1].tables[s].fields[a].name)
                    # Lower(responses[1].tables[t].fields[b].name)

RecordsFetchSent ==
    \E k \in DOMAIN calls :
        calls[k].method = "GET" /\ calls[k].endpoint = <<base, args.source_table>>

\* C4: without an explicit mapping, an empty derived mapping makes the
\* invocation fail with an error result without fetching the source records
\* and without any write call.
C4_EmptyDerivedMappingFails ==
    DerivedMappingEmpty =>
        /\ ~RecordsFetchSent
        /\ PostCalls = <<>>
        /\ pc = "done"
        /\ result.literal \in LiteralsWithError

\* The mapping matches no field of any fetched source record
MappingMatchesNothing ==
    /\ source_records # <<>>
    /\ \A k \in DOMAIN source_records, n \in DOMAIN field_mapping :
          field_mapping[n][1] \notin DOMAIN source_records[k].fields

\* C5: when the mapping matches no field of any fetched source record, no
\* write call is issued and the invocation ends in a failure result.
C5_NoMatchNoWriteAndFails ==
    MappingMatchesNothing =>
        /\ PostCalls = <<>>
        /\ pc = "done"
        /\ result.literal \in LiteralsWithError

\* The part of C5 the code keeps: no write call when nothing matches
C5_NoWriteWhenNothingMatches ==
    MappingMatchesNothing => (PostCalls = <<>> /\ pc = "done")

\* The pairs { M[f] -> r.fields[f] : f a key of M present in r.fields }
ExpectedPairs(r) ==
    {<<p[2], r.fields[p[1]]>> :
        p \in {q \in Range(field_mapping) : q[1] \in DOMAIN r.fields}}

FieldPairs(w) == {<<t, w.fields[t]>> : t \in DOMAIN w.fields}

\* The write-set entries that hold a value of source record j
EntriesOf(j) ==
    {k \in DOMAIN target_records :
        \E t \in DOMAIN target_records[k].fields : target_records[k].fields[t][1] = j}

\* The key of M that comes last among those present in r and mapped to t
LastKeyFor(t, r) ==
    LET hits == {n \in DOMAIN field_mapping :
                    field_mapping[n][2] = t /\ field_mapping[n][1] \in DOMAIN r.fields}
    IN  field_mapping[CHOOSE n \in hits : \A m \in hits : m <= n][1]

\* The write set has just been built: no create call has returned yet
JustProjected ==
    /\ source_records # <<>>
    /\ \A k \in DOMAIN responses : k \in DOMAIN calls => calls[k].method = "GET"

WriteSetWellFormed ==
    /\ \A k \in DOMAIN target_records :
          /\ DOMAIN target_records[k] = {"fields"}
          /\ DOMAIN target_records[k].fields # {}
    /\ Len(target_records)
          = Cardinality({k \in DOMAIN source_records :
                            ExpectedPairs(source_records[k]) # {}})

\* C6 as claimed: the fields of the projection of r are exactly the pairs
\* M[f] -> r.fields[f], and a record whose projection is empty is in no batch.
C6_ProjectionIsExactlyThePairs ==
    JustProjected =>
    /\ WriteSetWellFormed
    /\ \A k \in DOMAIN source_records :
          LET r == source_records[k]
          IN  IF ExpectedPairs(r) = {}
              THEN EntriesOf(r.id) = {}
              ELSE \E e \in DOMAIN target_records :
                      /\ EntriesOf(r.id) = {e}
                      /\ FieldPairs(target_records[e]) = ExpectedPairs(r)

\* C6 amended: the field names of the projection of r are exactly the M[f]
\* for the keys f of M present in r; each holds r.fields[f] for such a key f,
\* the last one in the order of M when several are mapped to the same target
\* field; nothing else appears, nothing is null-filled, and a record whose
\* projection is empty is in no batch.
C6_ProjectionLastKeyWins ==
    JustProjected =>
    /\ WriteSetWellFormed
    /\ \A k \in DOMAIN source_records :
          LET r == source_records[k]
          IN  IF ExpectedPairs(r) = {}
              THEN EntriesOf(r.id) = {}
              ELSE \E e \in DOMAIN target_records :
                      LET w == target_records[e]
                      IN  /\ EntriesOf(r.id) = {e}
                          /\ DOMAIN w.fields = {p[1] : p \in ExpectedPairs(r)}
                          /\ FieldPairs(w) \subseteq ExpectedPairs(r)
                          /\ \A t \in DOMAIN w.fields :
                                w.fields[t] = r.fields[LastKeyFor(t, r)]

\* C6 witness: a projected record with two present keys mapped to one target
\* field and a source field that is no key, next to an excluded record
C6_Witness ==
    /\ pc = "await_create"
    /\ \E k \in DOMAIN source_records :
          LET r == source_records[k]
          IN  /\ \E a, b \in DOMAIN field_mapping :
                    /\ a < b
                    /\ field_mapping[a][2] = field_mapping[b][2]
                    /\ {field_mapping[a][1], field_mapping[b][1]} \subseteq DOMAIN r.fields
              /\ \E f \in DOMAIN r.fields : \A n \in DOMAIN field_mapping :
                    field_mapping[n][1] # f
    /\ \E k \in DOMAIN source_records : ExpectedPairs(source_records[k]) = {}
    /\ Len(target_records) < Len(source_records)


\* The text generate_field_mapping returned to migrate_data
DerivedText == GenerateFieldMappingText(responses[1], args.source_table, args.target_table)

\* generate_field_mapping, called by migrate_data, produced a mapping
MappingProduced ==
    /\ args.tool = "migrate_data"
    /\ args.mapping_json.kind = "absent"
    /\ Len(responses) >= 1
    /\ "mapping" \in DOMAIN DerivedText

\* C29: whenever generate_field_mapping produced a non-empty mapping,
\* migrate_data takes exactly that mapping and goes on to fetch the source
\* records, whatever the table and field names are.
C29_ProducedMappingIsUsed ==
    MappingProduced =>
        /\ field_mapping = DerivedText.mapping
        /\ Len(calls) >= 2
        /\ calls[2] = RecordsRequest(base, args.source_table, args.max_records)

\* What holds instead: the mapping is used unless "Error" occurs in a name
\* of the text or a table name holds a brace
C29_ProducedMappingIsUsedForPlainNames ==
    (MappingProduced /\ ~ContainsError(DerivedText)
        /\ {args.source_table, args.target_table} \cap NamesWithBrace = {}) =>
        /\ field_mapping = DerivedText.mapping
        /\ Len(calls) >= 2
        /\ calls[2] = RecordsRequest(base, args.source_table, args.max_records)

-----------------------------------------------------------------------------
(* update_schema and create_tables: inputs *)

MaxTables == 2
MaxFields == 2

SchemaTableNames == {"Projects", "Tasks"}

\* The entries a desired field list may hold.  An entry is a JSON object: a
\* function on the keys it has.  The last one has no "type".
DesiredFieldDefs ==
    {[name |-> "Name", type |-> "singleLineText"],
     [name |-> "Name", type |-> "multilineText"],
     [name |-> "Name", type |-> "singleLineText", description |-> "Full name"],
     [name |-> "Status", type |-> "singleSelect", options |-> "choices"],
     [name |-> "Notes"]}

\* Field names are unique within a table
DesiredFieldLists == NamedSeqsUpTo(DesiredFieldDefs, MaxFields)

\* A desired table, with or without a description, or an entry without "fields"
DesiredTables ==
    {[name |-> n, fields |-> fl] : n \in SchemaTableNames, fl \in DesiredFieldLists}
        \cup {[name |-> "Projects", description |-> "About", fields |-> fl] :
                fl \in DesiredFieldLists}
        \cup {[name |-> n] : n \in SchemaTableNames}

\* Table names are unique within a base
DesiredSchemas == NamedSeqsUpTo(DesiredTables, MaxTables)

SchemaArgs ==
    {[tool |-> "update_schema", schema_json |-> [kind |-> "invalid"]]}
        \cup {[tool |-> "update_schema", schema_json |-> [kind |-> "object", tables |-> ts]] :
                ts \in DesiredSchemas}

LiveField(n, t) == [name |-> n, id |-> <<"fld", n>>, type |-> t]
LiveFieldLists ==
    {<<LiveField("Name", "singleLineText")>>,
     <<LiveField("Name", "singleLineText"), LiveField("Status", "singleSelect")>>}
LiveTable(n, fl) == [name |-> n, id |-> <<"tbl", n>>, fields |-> fl]

\* What the base can hold: each table absent, or present with one of the lists
LiveSchemas ==
    {<<>>}
        \cup {<<LiveTable("Projects", p)>> : p \in LiveFieldLists}
        \cup {<<LiveTable("Tasks", t)>> : t \in LiveFieldLists}
        \cup {<<LiveTable("Projects", p), LiveTable("Tasks", t)>> :
                p \in LiveFieldLists, t \in LiveFieldLists}

SchemaTablesBodies == {[tables |-> l] : l \in LiveSchemas}

-----------------------------------------------------------------------------
(* update_schema and create_tables: the handlers *)

InvalidSchemaJsonText == [literal |-> "Error: Invalid JSON format in schema_json parameter."]
NoTablesText == [literal |-> "Error: No tables defined in schema_json."]
ExistingErrorText(e) == [literal |-> "Error: ", error |-> e]
AddFailedText(f, t, e) ==
    [literal |-> "Failed to add field  to table : ", field |-> f, table |-> t, error |-> e]
AddedText(f, t) == [literal |-> "Added field  to table ", field |-> f, table |-> t]
UpdateFailedText(t, e) ==
    [literal |-> "Failed to update fields in table : ", table |-> t, error |-> e]
UpdatedText(n, t) == [literal |-> "Updated  fields in table ", count |-> n, table |-> t]
CreateFailedTextAsCreated(t, e) ==
    [literal |-> "Created table  with  fields", table |-> t, count |-> 0]
CreateFailedText(t, e) ==
    [literal |-> "Failed to create table : ", table |-> t, error |-> e]
CreatedText(t, n) == [literal |-> "Created table  with  fields", table |-> t, count |-> n]
\* "\n".join(lines)
JoinedText(lines) == [literal |-> "\n", lines |-> lines]

CreateTableRequest(b, data) ==
    [method |-> "POST", endpoint |-> <<"meta/bases", b, "tables">>, data |-> data]
AddFieldRequestToCurrentBase(b, table_id, field_data) ==
    [method |-> "POST",
     endpoint |-> <<"meta/bases", server_state.base_id, "tables", table_id, "fields">>,
     data |-> field_data]
AddFieldRequest(b, table_id, field_data) ==
    [method |-> "POST", endpoint |-> <<"meta/bases", b, "tables", table_id, "fields">>,
     data |-> field_data]
UpdateFieldsRequest(b, table_id, fields) ==
    [method |-> "PATCH", endpoint |-> <<"meta/bases", b, "tables", table_id, "fields">>,
     data |-> [fields |-> fields]]

\* if key in field: rec[key] = field[key]
WithOptional(rec, field, key) ==
    IF key \in DOMAIN field THEN (key :> field[key]) @@ rec ELSE rec

\* "name" not in field or "type" not in field
FieldSkipped(field) == "name" \notin DOMAIN field \/ "type" \notin DOMAIN field
\* "name" not in table or "fields" not in table
TableSkipped(table) == "name" \notin DOMAIN table \/ "fields" \notin DOMAIN table

\* create_tables, lines 359-373: the field list of the creation call
RECURSIVE CreateFieldList(_)
CreateFieldList(fields) ==
    IF fields = <<>> THEN <<>>
    ELSE LET field == Head(fields)
             field_data ==
                 WithOptional([name |-> field.name, type |-> field.type,
                               description |-> IF "description" \in DOMAIN field
                                               THEN field.description ELSE ""],
                              field, "options")
         IN  IF FieldSkipped(field) THEN CreateFieldList(Tail(fields))
             ELSE <<field_data>> \o CreateFieldList(Tail(fields))

\* create_tables, lines 352-356: the body of the creation call
CreateTableDataNoFields(table) ==
    [name |-> table.name,
     description |-> IF "description" \in DOMAIN table THEN table.description ELSE "",
     fields |-> <<>>]
CreateTableData(table) ==
    [name |-> table.name,
     description |-> IF "description" \in DOMAIN table THEN table.description ELSE "",
     fields |-> CreateFieldList(table.fields)]

\* update_schema, lines 441-451: an entry of the batched update
UpdateFieldData(field, existing_field) ==
    WithOptional(WithOptional([id |-> existing_field.id, name |-> field.name,
                               type |-> field.type],
                              field, "description"),
                 field, "options")

\* update_schema, lines 456-465: the body of an add-field call
AddFieldData(field) ==
    WithOptional(WithOptional([name |-> field.name, type |-> field.type],
                              field, "description"),
                 field, "options")

\* {field["name"]: field for field in existing_table.get("fields", [])}[name]
ExistingField(existing_table, name) ==
    existing_table.fields[CHOOSE n \in DOMAIN existing_table.fields :
        /\ existing_table.fields[n].name = name
        /\ \A m \in DOMAIN existing_table.fields :
              existing_table.fields[m].name = name => m <= n]

ExistingFieldNames(existing_table) ==
    {existing_table.fields[n].name : n \in DOMAIN existing_table.fields}

\* for table in tables: the table taken at step t
TableAtReversed(tables, t) == tables[Len(tables) + 1 - t]
TableAt(tables, t) == tables[t]

\* if fields_to_update: the batched update is due once the fields are done
UpdateDueEarly(table, f, queued) == queued # <<>>
UpdateDue(table, f, queued) == f > Len(table.fields) /\ queued # <<>>

\* The loop of lines 416-496 run from table t, field f on, up to the next
\* upstream request or to the end: what to send, or the lines to return
RECURSIVE Scan(_, _, _, _, _, _)
Scan(tables, existing, t, f, queued, lines) ==
    IF t > Len(tables) THEN [kind |-> "return", lines |-> lines]
    ELSE LET table == TableAt(tables, t)
         IN  IF TableSkipped(table) THEN Scan(tables, existing, t + 1, 1, <<>>, lines)
             ELSE IF \E n \in DOMAIN existing : existing[n].name = table.name
             THEN LET existing_table == FindTable(existing, table.name)[1]
                  IN  IF UpdateDue(table, f, queued)
                      THEN [kind |-> "update", t |-> t, f |-> f, queued |-> queued,
                            lines |-> lines,
                            request |-> UpdateFieldsRequest(base, existing_table.id, queued)]
                      ELSE IF f > Len(table.fields)
                      THEN Scan(tables, existing, t + 1, 1, <<>>, lines)
                      ELSE LET field == table.fields[f]
                           IN  IF FieldSkipped(field)
                               THEN Scan(tables, existing, t, f + 1, queued, lines)
                               ELSE IF field.name \in ExistingFieldNames(existing_table)
                               THEN Scan(tables, existing, t, f + 1,
                                        Append(queued, UpdateFieldData(field,
                                            ExistingField(existing_table, field.name))),
                                        lines)
                               ELSE [kind |-> "add", t |-> t, f |-> f, queued |-> queued,
                                     lines |-> lines,
                                     request |-> AddFieldRequest(base, existing_table.id,
                                                                 AddFieldData(field))]
             \* create_tables reads the current base itself (line 334)
             ELSE IF server_state.base_id = ""
                  THEN Scan(tables, existing, t + 1, 1, <<>>, Append(lines, NoBaseText))
                  ELSE [kind |-> "create", t |-> t, f |-> f, queued |-> <<>>,
                        lines |-> lines,
                        request |-> CreateTableRequest(server_state.base_id,
                                                       CreateTableData(table))]

\* Carry on from a scan: send its request, or return the collected lines
Proceed(step) ==
    /\ update_results' = step.lines
    /\ IF step.kind = "return"
       THEN /\ Finish(JoinedText(step.lines))
            /\ UNCHANGED <<calls, ti, fj, fields_to_update>>
       ELSE /\ calls' = ApiCall(step.request)
            /\ pc' = "await_" \o step.kind
            /\ ti' = step.t
            /\ fj' = step.f
            /\ fields_to_update' = step.queued
            /\ UNCHANGED result

\* Lines 394-407: the base check, the schema argument, the metadata request
SchemaStart ==
    /\ pc = "start"
    /\ args.tool = "update_schema"
    /\ base' = server_state.base_id
    /\ UNCHANGED <<server_state, args, responses, migrateLocals, schemaLocals>>
    /\ IF server_state.base_id = ""
       THEN Finish(NoBaseText) /\ UNCHANGED calls
       ELSE IF args.schema_json.kind = "invalid"
       THEN Finish(InvalidSchemaJsonText) /\ UNCHANGED calls
       ELSE IF args.schema_json.tables = <<>>
       THEN Finish(NoTablesText) /\ UNCHANGED calls
       ELSE /\ calls' = ApiCall(TablesRequest(base'))
            /\ pc' = "await_existing"
            /\ UNCHANGED result

\* Lines 408-412: the live tables, then the loop up to its first request
SchemaExistingReturn ==
    /\ pc = "await_existing"
    /\ \E existing_tables_result \in ApiOutcomes(SchemaTablesBodies) :
        /\ responses' = Append(responses, existing_tables_result)
        /\ IF "error" \in DOMAIN existing_tables_result
           THEN /\ Finish(ExistingErrorText(existing_tables_result.error))
                /\ UNCHANGED <<calls, schemaLocals>>
           ELSE /\ existing_tables' = existing_tables_result.tables
                /\ Proceed(Scan(args.schema_json.tables, existing_tables', 1, 1,
                                <<>>, <<>>))
    /\ UNCHANGED <<server_state, args, base, migrateLocals>>

\* Lines 474-477: the outcome of an add-field call, then the next field
SchemaAddReturn ==
    /\ pc = "await_add"
    /\ \E field_result \in ApiOutcomes({[id |-> "new"]}) :
        LET table == TableAt(args.schema_json.tables, ti)
            line == IF "error" \in DOMAIN field_result
                    THEN AddFailedText(table.fields[fj].name, table.name, field_result.error)
                    ELSE AddedText(table.fields[fj].name, table.name)
        IN  /\ responses' = Append(responses, field_result)
            /\ Proceed(Scan(args.schema_json.tables, existing_tables, ti, fj + 1,
                            fields_to_update, Append(update_results, line)))
    /\ UNCHANGED <<server_state, args, base, migrateLocals, existing_tables>>

\* Lines 488-491: the outcome of the batched update, then the next table
SchemaUpdateReturn ==
    /\ pc = "await_update"
    /\ \E update_result \in ApiOutcomes({[fields |-> "updated"]}) :
        LET table == TableAt(args.schema_json.tables, ti)
            line == IF "error" \in DOMAIN update_result
                    THEN UpdateFailedText(table.name, update_result.error)
                    ELSE UpdatedText(Len(fields_to_update), table.name)
        IN  /\ responses' = Append(responses, update_result)
            /\ Proceed(Scan(args.schema_json.tables, existing_tables, ti + 1, 1,
                            <<>>, Append(update_results, line)))
    /\ UNCHANGED <<server_state, args, base, migrateLocals, existing_tables>>

\* create_tables, lines 378-383, and line 496: the outcome of the creation
\* call is the text create_tables returns, which becomes one collected line
SchemaCreateReturn ==
    /\ pc = "await_create"
    /\ args.tool = "update_schema"
    /\ \E create_result \in ApiOutcomes({[id |-> "new"]}) :
        LET table == TableAt(args.schema_json.tables, ti)
            line == IF "error" \in DOMAIN create_result
                    THEN CreateFailedText(table.name, create_result.error)
                    ELSE CreatedText(table.name, Len(CreateTableData(table).fields))
        IN  /\ responses' = Append(responses, create_result)
            /\ Proceed(Scan(args.schema_json.tables, existing_tables, ti + 1, 1,
                            <<>>, Append(update_results, JoinedText(<<line>>))))
    /\ UNCHANGED <<server_state, args, base, migrateLocals, existing_tables>>

InitSchema ==
    /\ server_state \in [base_id : Bases, token : Tokens]
    /\ args \in SchemaArgs
    /\ pc = "start"
    /\ base = ""
    /\ calls = <<>>
    /\ responses = <<>>
    /\ field_mapping = <<>>
    /\ source_records = <<>>
    /\ target_records = <<>>
    /\ i = 0
    /\ migrated_count = 0
    /\ existing_tables = <<>>
    /\ ti = 0
    /\ fj = 0
    /\ fields_to_update = <<>>
    /\ update_results = <<>>
    /\ result = NoResult

NextSchema ==
    \/ SchemaStart
    \/ SchemaExistingReturn
    \/ SchemaAddReturn
    \/ SchemaUpdateReturn
    \/ SchemaCreateReturn

SpecSchema == InitSchema /\ [][NextSchema]_vars


-----------------------------------------------------------------------------
(* Properties of update_schema *)

\* The metadata call of update_schema has answered with the live tables
SchemaFetched ==
    /\ args.tool = "update_schema"
    /\ Len(responses) >= 1
    /\ "tables" \in DOMAIN responses[1]

SchemaDone == SchemaFetched /\ pc = "done"

Desired == args.schema_json.tables
Live == responses[1].tables
LiveNames == {Live[n].name : n \in DOMAIN Live}
LiveNamed(name) == CHOOSE l \in Range(Live) : l.name = name
LiveFieldNames(name) == {LiveNamed(name).fields[n].name : n \in DOMAIN LiveNamed(name).fields}

IsDesiredTable(t) == {"name", "fields"} \subseteq DOMAIN t
IsDesiredField(f) == {"name", "type"} \subseteq DOMAIN f
\* The desired fields of a table: the entries with a name and a type, in order
DesiredFieldsOf(t) == SelectSeq(t.fields, IsDesiredField)

AbsentTables == {n \in DOMAIN Desired :
                    IsDesiredTable(Desired[n]) /\ Desired[n].name \notin LiveNames}
PresentTables == {n \in DOMAIN Desired :
                    IsDesiredTable(Desired[n]) /\ Desired[n].name \in LiveNames}

IsCreation(c) == c.method = "POST" /\ Len(c.endpoint) = 3
IsFieldCall(c, method) == c.method = method /\ Len(c.endpoint) = 5
\* The table a write call is addressed to, by name
CallTable(c) == IF Len(c.endpoint) = 3 THEN c.data.name ELSE c.endpoint[4][2]
WriteCalls == {k \in DOMAIN calls : k >= 2}

CreationCallsFor(name) ==
    {k \in WriteCalls : IsCreation(calls[k]) /\ calls[k].data.name = name}
AddCallsFor(name) ==
    {k \in WriteCalls : IsFieldCall(calls[k], "POST") /\ CallTable(calls[k]) = name}
UpdateCallsFor(name) ==
    {k \in WriteCalls : IsFieldCall(calls[k], "PATCH") /\ CallTable(calls[k]) = name}

\* What a creation call is to carry for a desired field
CreatedField(f) ==
    LET d == IF "description" \in DOMAIN f THEN f.description ELSE ""
    IN  IF "options" \in DOMAIN f
        THEN [name |-> f.name, type |-> f.type, description |-> d, options |-> f.options]
        ELSE [name |-> f.name, type |-> f.type, description |-> d]

\* C7: a desired table whose name is absent from the live schema gets exactly
\* one creation call, carrying its name, its description and all its desired
\* fields in order, and no add-field or update-fields call.
C7_AbsentTableCreatedInOneCall ==
    SchemaFetched =>
        \A n \in AbsentTables :
            LET t == Desired[n]
                wanted == DesiredFieldsOf(t)
            IN  /\ Cardinality(CreationCallsFor(t.name)) <= 1
                /\ AddCallsFor(t.name) = {}
                /\ UpdateCallsFor(t.name) = {}
                /\ \A k \in CreationCallsFor(t.name) :
                      /\ calls[k].endpoint = <<"meta/bases", base, "tables">>
                      /\ calls[k].data.name = t.name
                      /\ calls[k].data.description
                            = (IF "description" \in DOMAIN t THEN t.description ELSE "")
                      /\ calls[k].data.fields
                            = [m \in DOMAIN wanted |-> CreatedField(wanted[m])]
                /\ pc = "done" => Cardinality(CreationCallsFor(t.name)) = 1

\* C7 witness: a finished run that created an absent table with two fields
\* next to a table that was present
C7_Witness ==
    /\ SchemaDone
    /\ PresentTables # {}
    /\ \E n \in AbsentTables :
          /\ Len(DesiredFieldsOf(Desired[n])) = 2
          /\ "description" \in DOMAIN Desired[n]
          /\ \E k \in CreationCallsFor(Desired[n].name) : Len(calls[k].data.fields) = 2

\* The desired fields of table t that the live table lacks / has
NewFields(t) ==
    SelectSeq(DesiredFieldsOf(t), LAMBDA f : f.name \notin LiveFieldNames(t.name))
SharedFields(t) ==
    SelectSeq(DesiredFieldsOf(t), LAMBDA f : f.name \in LiveFieldNames(t.name))

\* C8: a desired table present in the live schema gets exactly one add-field
\* call per desired field the live table lacks, and at most one update-fields
\* call however many fields are queued; no creation call.
C8_OneAddPerNewFieldOneUpdatePerTable ==
    SchemaFetched =>
        \A n \in PresentTables :
            LET t == Desired[n]
                new == NewFields(t)
            IN  /\ CreationCallsFor(t.name) = {}
                /\ Cardinality(UpdateCallsFor(t.name)) <= 1
                /\ Cardinality(AddCallsFor(t.name)) <= Len(new)
                /\ \A m \in DOMAIN new :
                      Cardinality({k \in AddCallsFor(t.name) :
                                      calls[k].data.name = new[m].name}) <= 1
                /\ pc = "done" =>
                      /\ Cardinality(AddCallsFor(t.name)) = Len(new)
                      /\ \A m \in DOMAIN new :
                            \E k \in AddCallsFor(t.name) :
                                /\ calls[k].data.name = new[m].name
                                /\ calls[k].data.type = new[m].type
                      /\ SharedFields(t) # <<>> =>
                            Cardinality(UpdateCallsFor(t.name)) = 1

\* C8 witness: a present table with one new field and one field of changed
\* type got one add call and one update call
C8_Witness ==
    /\ SchemaDone
    /\ \E n \in PresentTables :
          LET t == Desired[n]
          IN  /\ Len(NewFields(t)) = 1
              /\ Len(SharedFields(t)) = 1
              /\ SharedFields(t)[1].type
                    # LiveNamed(t.name).fields[1].type
              /\ Cardinality(AddCallsFor(t.name)) = 1
              /\ Cardinality(UpdateCallsFor(t.name)) = 1

LiveFieldNamed(name, f) ==
    CHOOSE l \in Range(LiveNamed(name).fields) : l.name = f

\* The desired field differs from the live one in type or description
FieldDiffers(f, l) ==
    \/ f.type # l.type
    \/ /\ "description" \in DOMAIN f
       /\ f.description # (IF "description" \in DOMAIN l THEN l.description ELSE "")

ChangedFields(t) ==
    SelectSeq(SharedFields(t), LAMBDA f : FieldDiffers(f, LiveFieldNamed(t.name, f.name)))

\* C9: the batched update of a present table holds exactly the desired fields
\* found in both schemas whose type or description differs; an identical field
\* is never submitted, and no call is made when nothing differs.
C9_UpdateHoldsOnlyChangedFields ==
    SchemaDone =>
        \A n \in PresentTables :
            LET t == Desired[n]
                changed == ChangedFields(t)
            IN  /\ changed = <<>> => UpdateCallsFor(t.name) = {}
                /\ \A k \in UpdateCallsFor(t.name) :
                      [m \in DOMAIN calls[k].data.fields |-> calls[k].data.fields[m].name]
                          = [m \in DOMAIN changed |-> changed[m].name]

\* What the code does instead: every desired field found in both is submitted
C9_UpdateHoldsEverySharedField ==
    SchemaDone =>
        \A n \in PresentTables :
            LET t == Desired[n]
            IN  \A k \in UpdateCallsFor(t.name) :
                    [m \in DOMAIN calls[k].data.fields |-> calls[k].data.fields[m].name]
                        = [m \in DOMAIN SharedFields(t) |-> SharedFields(t)[m].name]

\* The place in the desired schema of the table a write call is addressed to
TableIndexOf(k) == CHOOSE n \in DOMAIN Desired :
                       IsDesiredTable(Desired[n]) /\ Desired[n].name = CallTable(calls[k])

\* C10: the write calls go out one at a time and in order: a call is sent only
\* when every earlier one has returned, every call for a desired table comes
\* before any call for a later desired table, and within a table no add-field
\* call follows the update-fields call.
C10_CallsInOrder ==
    /\ Len(calls) <= Len(responses) + 1
    /\ SchemaFetched =>
          \A k, l \in WriteCalls :
              k < l =>
                  /\ TableIndexOf(k) <= TableIndexOf(l)
                  /\ TableIndexOf(k) = TableIndexOf(l) =>
                        ~(calls[k].method = "PATCH" /\ calls[l].method = "POST")

\* C10 witness: the first desired table got an add call and then its update
\* call, and the second desired table a call after them
C10_Witness ==
    /\ SchemaDone
    /\ Len(calls) >= 4
    /\ IsFieldCall(calls[2], "POST")
    /\ IsFieldCall(calls[3], "PATCH")
    /\ TableIndexOf(2) = 1
    /\ TableIndexOf(3) = 1
    /\ TableIndexOf(4) = 2

\* The write calls a desired table is due, whatever the upstream answers:
\* its creation when absent, else an add per new field and then the update
WritesFor(t) ==
    IF t.name \notin LiveNames
    THEN <<[kind |-> "create", table |-> t.name]>>
    ELSE [m \in DOMAIN NewFields(t) |->
             [kind |-> "add", table |-> t.name, field |-> NewFields(t)[m].name]]
         \o (IF SharedFields(t) # <<>>
             THEN <<[kind |-> "update", table |-> t.name]>>
             ELSE <<>>)

\* The write calls due to the first n entries of the desired schema
RECURSIVE ExpectedWrites(_)
ExpectedWrites(n) ==
    IF n = 0 THEN <<>>
    ELSE ExpectedWrites(n - 1)
            \o (IF IsDesiredTable(Desired[n]) THEN WritesFor(Desired[n]) ELSE <<>>)

CallKind(c) ==
    IF IsCreation(c) THEN [kind |-> "create", table |-> c.data.name]
    ELSE IF c.method = "POST"
         THEN [kind |-> "add", table |-> CallTable(c), field |-> c.data.name]
         ELSE [kind |-> "update", table |-> CallTable(c)]

\* The write calls sent so far
IssuedWrites == [k \in 1..(Len(calls) - 1) |-> CallKind(calls[k + 1])]

\* The k-th line of the returned text; a creation's line is the text that
\* create_tables returned
ReportedLine(k) ==
    IF "lines" \in DOMAIN result.lines[k] THEN result.lines[k].lines[1] ELSE result.lines[k]

FailureLiteral(kind) ==
    CASE kind = "create" -> "Failed to create table : "
      [] kind = "add" -> "Failed to add field  to table : "
      [] kind = "update" -> "Failed to update fields in table : "

\* C11: a failed creation, add-field or update-fields call never aborts
\* update_schema: the calls sent are always a prefix of the calls due to the
\* desired tables given the live schema alone, a finished run has sent all of
\* them, and its result holds one line per call, a failure line naming the
\* table and the error for each failed call and a success line for the others.
C11_FailureNeverAborts ==
    SchemaFetched =>
        LET due == ExpectedWrites(Len(Desired))
        IN  /\ Len(IssuedWrites) <= Len(due)
            /\ IssuedWrites = SubSeq(due, 1, Len(IssuedWrites))
            /\ pc = "done" =>
                  /\ IssuedWrites = due
                  /\ Len(result.lines) = Len(due)
                  /\ \A k \in DOMAIN due :
                        LET line == ReportedLine(k)
                            failed == "error" \in DOMAIN responses[k + 1]
                        IN  /\ line.table = due[k].table
                            /\ failed <=> line.literal = FailureLiteral(due[k].kind)
                            /\ failed => line.error = responses[k + 1].error

\* C11 witness: a finished run whose call for the first desired table failed
\* and whose second desired table still got its call, which succeeded
C11_Witness ==
    /\ SchemaDone
    /\ Len(calls) >= 3
    /\ "error" \in DOMAIN responses[2]
    /\ "error" \notin DOMAIN responses[3]
    /\ TableIndexOf(2) = 1
    /\ TableIndexOf(3) = 2
    /\ ReportedLine(1).literal \in {FailureLiteral(k) : k \in {"create", "add", "update"}}

-----------------------------------------------------------------------------
(* generate_field_mapping as a tool of its own *)

MaxMapFields == 3

MappingFieldNames == {"Email", "email", "EMAIL", "Name"}

MappingFieldLists == {fl \in SeqsUpTo(MappingFieldNames, MaxMapFields) : Distinct(fl)}

MappingArgs ==
    {[tool |-> "generate_field_mapping", source_table |-> p[1], target_table |-> p[2]] :
        p \in TablePairs}

\* A table entry of the metadata response that has no "name"
NamelessTable == [id |-> "tblX", fields |-> <<>>]

\* The bodies the metadata call can return: Contacts and People with any
\* field lists, alone or next to an entry without a name
MappingTablesBodies ==
    {[tables |-> <<TableOf("Contacts", sf), TableOf("People", tf)>>] :
        sf \in MappingFieldLists, tf \in MappingFieldLists}
        \cup {[tables |-> <<NamelessTable, TableOf("Contacts", <<"Email">>),
                            TableOf("People", <<"Email">>)>>],
              [tables |-> <<TableOf("Contacts", <<"Email">>),
                            TableOf("People", <<"Email">>), NamelessTable>>]}

GenerateErrorText(e) == [literal |-> "Error generating field mapping: ", error |-> e]

\* next((t for t in tables if t["name"] == name), None) raises KeyError when
\* it meets an entry without "name" before it meets the table
LookupRaises(tables, name) ==
    \E n \in DOMAIN tables :
        /\ "name" \notin DOMAIN tables[n]
        /\ \A m \in 1..(n - 1) : "name" \in DOMAIN tables[m] /\ tables[m].name # name

\* Lines 758-806: the text returned for a response of the metadata call
GenerateFieldMappingResult(tables_result, source_table, target_table) ==
    IF "error" \in DOMAIN tables_result
    THEN AccessTablesErrorText(tables_result.error)
    ELSE IF \/ LookupRaises(tables_result.tables, source_table)
            \/ LookupRaises(tables_result.tables, target_table)
         THEN GenerateErrorText("'name'")
         ELSE GenerateFieldMappingText(
                  [tables |-> SelectSeq(tables_result.tables,
                                        LAMBDA t : "name" \in DOMAIN t)],
                  source_table, target_table)

\* Lines 749-756: the base check and the metadata request
MappingStart ==
    /\ pc = "start"
    /\ args.tool = "generate_field_mapping"
    /\ base' = server_state.base_id
    /\ UNCHANGED <<server_state, args, responses, migrateLocals, schemaLocals>>
    /\ IF server_state.base_id = ""
       THEN Finish(NoBaseText) /\ UNCHANGED calls
       ELSE /\ calls' = ApiCall(TablesRequest(base'))
            /\ pc' = "await_tables"
            /\ UNCHANGED result

\* Lines 758-806: the tables, the matching of the field names, the text
MappingTablesReturn ==
    /\ pc = "await_tables"
    /\ args.tool = "generate_field_mapping"
    /\ \E tables_result \in ApiOutcomes(MappingTablesBodies) :
        LET text == GenerateFieldMappingResult(tables_result, args.source_table,
                                               args.target_table)
        IN  /\ responses' = Append(responses, tables_result)
            /\ field_mapping' = IF "mapping" \in DOMAIN text THEN text.mapping ELSE <<>>
            /\ Finish(text)
    /\ UNCHANGED <<server_state, args, base, calls, source_records, target_records,
                   i, migrated_count, schemaLocals>>

InitMapping ==
    /\ server_state \in [base_id : Bases, token : Tokens]
    /\ args \in MappingArgs
    /\ pc = "start"
    /\ base = ""
    /\ calls = <<>>
    /\ responses = <<>>
    /\ field_mapping = <<>>
    /\ source_records = <<>>
    /\ target_records = <<>>
    /\ i = 0
    /\ migrated_count = 0
    /\ existing_tables = <<>>
    /\ ti = 0
    /\ fj = 0
    /\ fields_to_update = <<>>
    /\ update_results = <<>>
    /\ result = NoResult

NextMapping ==
    \/ MappingStart
    \/ MappingTablesReturn

SpecMapping == InitMapping /\ [][NextMapping]_vars

-----------------------------------------------------------------------------
(* Properties of generate_field_mapping *)

\* generate_field_mapping got the tables and matched their field names
MappingDerived ==
    /\ args.tool = "generate_field_mapping"
    /\ pc = "done"
    /\ result.literal \in {"No matching fields found between the tables.",
                           "Field mapping between '' and '':"}

NamedTables == SelectSeq(responses[1].tables, LAMBDA t : "name" \in DOMAIN t)
SourceNames == FieldNamesOf(FindTable(NamedTables, args.source_table)[1])
TargetNames == FieldNamesOf(FindTable(NamedTables, args.target_table)[1])

\* The names that differ at most in the case of their letters
CaseClasses == {{"Email", "email", "EMAIL"}, {"Name"}}
SameIgnoringCase(a, b) == \E c \in CaseClasses : a \in c /\ b \in c

\* The target names a source name is mapped to (none or one)
MappedTo(m, s) == {p[2] : p \in {q \in Range(m) : q[1] = s}}

\* The positions of the target fields that match s case-insensitively
CaseMatches(s) == {n \in DOMAIN TargetNames : SameIgnoringCase(TargetNames[n], s)}

\* C12: a source field whose name is a target field name is mapped to that
\* very name, wherever a target field matching only case-insensitively is
\* declared; without an exact match it is mapped to a name equal to it
\* case-insensitively when there is one.
C12_ExactMatchPreferred ==
    MappingDerived =>
        \A s \in Range(SourceNames) :
            /\ s \in Range(TargetNames) => MappedTo(field_mapping, s) = {s}
            /\ (s \notin Range(TargetNames) /\ CaseMatches(s) # {}) =>
                  /\ MappedTo(field_mapping, s) # {}
                  /\ \A v \in MappedTo(field_mapping, s) : SameIgnoringCase(s, v)

\* C12 witness: source "Email", target declaring "email" before "Email"
C12_Witness ==
    /\ MappingDerived
    /\ "Email" \in Range(SourceNames)
    /\ Len(TargetNames) >= 2
    /\ TargetNames[1] = "email"
    /\ TargetNames[2] = "Email"
    /\ <<"Email", "Email">> \in Range(field_mapping)

\* C13: a source field without an exact match is mapped to the first target
\* field, in declaration order, that matches it case-insensitively.
C13_FirstDeclaredCaseMatch ==
    MappingDerived =>
        \A s \in Range(SourceNames) :
            (s \notin Range(TargetNames) /\ CaseMatches(s) # {}) =>
                LET first == CHOOSE n \in CaseMatches(s) : \A m \in CaseMatches(s) : n <= m
                IN  MappedTo(field_mapping, s) = {TargetNames[first]}

\* C13 witness: source "EMAIL" against a target declaring "email" and then
\* "Email": the first declared is neither the alphabetically first nor the last
C13_Witness ==
    /\ MappingDerived
    /\ "EMAIL" \in Range(SourceNames)
    /\ TargetNames = <<"email", "Email">>
    /\ <<"EMAIL", "email">> \in Range(field_mapping)

\* C14: the keys of the derived mapping are exactly the source fields that
\* some target field equals case-insensitively, every value is a field of the
\* target table, and when nothing matches the result is the plain
\* no-matching-fields text, which is not an error.
C14_KeysAreTheMatchedFields ==
    MappingDerived =>
        /\ {p[1] : p \in Range(field_mapping)}
              = {s \in Range(SourceNames) : CaseMatches(s) # {}}
        /\ {p[2] : p \in Range(field_mapping)} \subseteq Range(TargetNames)
        /\ field_mapping = <<>> =>
              /\ result = NoMatchingFieldsText
              /\ ~ContainsError(result)
        /\ field_mapping # <<>> =>
              /\ result.mapping = field_mapping
              /\ ~ContainsError(result)

\* C14 witness: one source field matched only case-insensitively and another
\* one without any match
C14_Witness ==
    /\ MappingDerived
    /\ \E s \in Range(SourceNames) :
          s \notin Range(TargetNames) /\ MappedTo(field_mapping, s) # {}
    /\ \E s \in Range(SourceNames) : MappedTo(field_mapping, s) = {}
    /\ TargetNames # <<>>

\* The mapping derived back: the target fields used by the mapping as source
\* fields, the source table as target
ReDerived ==
    MatchFields([n \in DOMAIN field_mapping |-> field_mapping[n][2]], SourceNames, <<>>)

NoCaseTwins(names) ==
    \A a, b \in Range(names) : SameIgnoringCase(a, b) => a = b

\* C15 as stated: every pair of the mapping derived back is the reverse of a
\* pair of the mapping.
C15_ReDerivedIsReversed ==
    MappingDerived =>
        \A p \in Range(ReDerived) : <<p[2], p[1]>> \in Range(field_mapping)

\* C15 amended: when no two field names of the target table B differ only in
\* case, every pair of the mapping derived back is the reverse of a pair of
\* the mapping.
C15_ReDerivedIsReversedWithoutCaseTwins ==
    (MappingDerived /\ NoCaseTwins(TargetNames)) =>
        \A p \in Range(ReDerived) : <<p[2], p[1]>> \in Range(field_mapping)

\* C15 witness: a target without case twins, a source with them, and a pair
\* derived back that changes the case
C15_Witness ==
    /\ MappingDerived
    /\ NoCaseTwins(TargetNames)
    /\ ~NoCaseTwins(SourceNames)
    /\ Len(field_mapping) >= 2
    /\ \E p \in Range(ReDerived) : p[1] # p[2]

\* C30: the derived mapping is injective: no two distinct source fields are
\* mapped to the same target field.
C30_DerivedMappingInjective ==
    MappingDerived =>
        \A p, q \in Range(field_mapping) : p[2] = q[2] => p[1] = q[1]

\* C30 amended: the derived mapping is injective whenever no two field names
\* of the source table differ only in case; two distinct source fields share
\* a target field only when their names differ only in case.
C30_InjectiveWithoutCaseTwins ==
    MappingDerived =>
        /\ \A p, q \in Range(field_mapping) :
              /\ p[1] = q[1] => p = q
              /\ p[2] = q[2] => SameIgnoringCase(p[1], q[1])
        /\ NoCaseTwins(SourceNames) =>
              \A p, q \in Range(field_mapping) : p[2] = q[2] => p[1] = q[1]

\* C30 witness: a source without case twins, two of its fields mapped, the
\* target declaring two names that differ only in case
C30_Witness ==
    /\ MappingDerived
    /\ NoCaseTwins(SourceNames)
    /\ ~NoCaseTwins(TargetNames)
    /\ Len(field_mapping) >= 2

-----------------------------------------------------------------------------
(* compare_schemas *)

CompareTableNames == {"Projects", "Tasks", "Archive"}

\* The entries a desired field list may hold; the last one has no "type"
CompareFieldDefs ==
    {[name |-> "Name", type |-> "singleLineText"],
     [name |-> "Name", type |-> "multilineText"],
     [name |-> "Status", type |-> "singleSelect"],
     [name |-> "Status"]}

CompareFieldLists == NamedSeqsUpTo(CompareFieldDefs, MaxFields)

\* A desired table, or an entry without "fields"
CompareTables ==
    {[name |-> n, fields |-> fl] : n \in CompareTableNames, fl \in CompareFieldLists}
        \cup {[name |-> n] : n \in CompareTableNames}

CompareSchemas == NamedSeqsUpTo(CompareTables, MaxTables)

\* schema_json: not JSON, a schema, or a schema with an entry without "name"
CompareArgs ==
    {[tool |-> "compare_schemas", schema_json |-> [kind |-> "invalid"]],
     [tool |-> "compare_schemas",
      schema_json |-> [kind |-> "object", tables |-> <<[fields |-> <<>>]>>]]}
        \cup {[tool |-> "compare_schemas", schema_json |-> [kind |-> "object", tables |-> ts]] :
                ts \in CompareSchemas}

\* The bodies the metadata call can return: the live schemas, and one whose
\* table entry has no "name"
CompareTablesBodies ==
    SchemaTablesBodies \cup {[tables |-> <<[id |-> "tblX", fields |-> <<>>]>>]}

CompareErrorText(e) == [literal |-> "Error comparing schemas: ", error |-> e]
MissingFieldsText(t, fields) ==
    [literal |-> "Table '' is missing fields:", table |-> t, fields |-> fields]
ExtraFieldsText(t, fields) ==
    [literal |-> "Table '' has extra fields:", table |-> t, fields |-> fields]
TypeDifferencesText(t, fields) ==
    [literal |-> "Table '' has field type differences:", table |-> t, fields |-> fields]
\* The report: its sections, and whether it ends with "The schemas are identical."
ReportText(missing_tables, extra_tables, field_differences, identical) ==
    [literal |-> "Schema Comparison Report", missing_tables |-> missing_tables,
     extra_tables |-> extra_tables, field_differences |-> field_differences,
     identical |-> identical]

\* table.get("fields", [])
FieldsOf(table) == IF "fields" \in DOMAIN table THEN table.fields ELSE <<>>
\* field.get("type"), None when absent
TypeOf(field) == IF "type" \in DOMAIN field THEN field.type ELSE "None"
\* field.get('type', 'unknown')
ShownType(field) == IF "type" \in DOMAIN field THEN field.type ELSE "unknown"

\* list(d.keys()) of a dict built from the names in order
RECURSIVE DictKeys(_, _)
DictKeys(names, seen) ==
    IF names = <<>> THEN <<>>
    ELSE IF Head(names) \in seen THEN DictKeys(Tail(names), seen)
         ELSE <<Head(names)>> \o DictKeys(Tail(names), seen \cup {Head(names)})

\* {x["name"]: x for x in entries}[name]: the last entry of that name
Named(entries, name) ==
    entries[CHOOSE n \in DOMAIN entries :
                /\ entries[n].name = name
                /\ \A m \in (n + 1)..Len(entries) : entries[m].name # name]

NamesOf(entries) == [n \in DOMAIN entries |-> entries[n].name]

\* Lines 675 and 683: [name for name in xs if name not in ys]
NotInSwapped(xs, ys) == SelectSeq(ys, LAMBDA name : name \notin Range(xs))
NotIn(xs, ys) == SelectSeq(xs, LAMBDA name : name \notin Range(ys))

\* Line 721: schema_field.get("type") != current_field.get("type")
TypeDiffersNever(schema_field, current_field) == FALSE
TypeDiffers(schema_field, current_field) == TypeOf(schema_field) # TypeOf(current_field)

\* Line 735: not missing_tables and not extra_tables and not field_differences
IdenticalNever(missing_tables, extra_tables, field_differences) == FALSE
Identical(missing_tables, extra_tables, field_differences) ==
    missing_tables = <<>> /\ extra_tables = <<>> /\ field_differences = <<>>

\* Lines 697-728: the lines reported for a table found in both schemas
TableDifferences(table, current_fields) ==
    LET schema_fields == FieldsOf(table)
        missing_fields ==
            SelectSeq(schema_fields, LAMBDA f : f.name \notin Range(NamesOf(current_fields)))
        extra_fields ==
            SelectSeq(current_fields, LAMBDA f : f.name \notin Range(NamesOf(schema_fields)))
        type_differences ==
            SelectSeq(schema_fields,
                LAMBDA f : /\ f.name \in Range(NamesOf(current_fields))
                           /\ TypeDiffers(f, Named(current_fields, f.name)))
    IN  (IF missing_fields # <<>>
         THEN <<MissingFieldsText(table.name,
                    [n \in DOMAIN missing_fields |->
                        <<missing_fields[n].name, ShownType(missing_fields[n])>>])>>
         ELSE <<>>)
        \o (IF extra_fields # <<>>
            THEN <<ExtraFieldsText(table.name,
                       [n \in DOMAIN extra_fields |->
                           <<extra_fields[n].name, ShownType(extra_fields[n])>>])>>
            ELSE <<>>)
        \o (IF type_differences # <<>>
            THEN <<TypeDifferencesText(table.name,
                       [n \in DOMAIN type_differences |->
                           <<type_differences[n].name,
                             ShownType(Named(current_fields, type_differences[n].name)),
                             ShownType(type_differences[n])>>])>>
            ELSE <<>>)

\* Lines 693-728: the field differences, table by table in schema order
RECURSIVE FieldDifferences(_, _)
FieldDifferences(schema_tables, current_tables) ==
    IF schema_tables = <<>> THEN <<>>
    ELSE LET table == Head(schema_tables)
         IN  (IF table.name \in Range(NamesOf(current_tables))
              THEN TableDifferences(table, FieldsOf(Named(current_tables, table.name)))
              ELSE <<>>)
             \o FieldDifferences(Tail(schema_tables), current_tables)

\* A subscript ["name"] of lines 659-697 meets an entry without that key
CompareRaises(schema_tables, current_tables) ==
    \/ \E n \in DOMAIN current_tables :
          \/ "name" \notin DOMAIN current_tables[n]
          \/ \E k \in DOMAIN FieldsOf(current_tables[n]) :
                "name" \notin DOMAIN FieldsOf(current_tables[n])[k]
    \/ \E n \in DOMAIN schema_tables :
          \/ "name" \notin DOMAIN schema_tables[n]
          \/ /\ schema_tables[n].name \in Range(NamesOf(current_tables))
             /\ \E k \in DOMAIN FieldsOf(schema_tables[n]) :
                   "name" \notin DOMAIN FieldsOf(schema_tables[n])[k]

\* Lines 653-743: the text returned for a response of the metadata call
CompareReport(tables_result, schema_tables) ==
    IF "error" \in DOMAIN tables_result
    THEN AccessTablesErrorText(tables_result.error)
    ELSE LET current_tables == tables_result.tables
         IN  IF CompareRaises(schema_tables, current_tables)
             THEN CompareErrorText("'name'")
             ELSE LET schema_table_names == NamesOf(schema_tables)
                      current_table_names == DictKeys(NamesOf(current_tables), {})
                      missing_tables == NotIn(schema_table_names, current_table_names)
                      extra_tables == NotIn(current_table_names, schema_table_names)
                      field_differences == FieldDifferences(schema_tables, current_tables)
                  IN  ReportText(missing_tables, extra_tables, field_differences,
                          Identical(missing_tables, extra_tables, field_differences))

\* Lines 640-651: the base check, the schema argument, the metadata request
CompareStart ==
    /\ pc = "start"
    /\ args.tool = "compare_schemas"
    /\ base' = server_state.base_id
    /\ UNCHANGED <<server_state, args, responses, migrateLocals, schemaLocals>>
    /\ IF server_state.base_id = ""
       THEN Finish(NoBaseText) /\ UNCHANGED calls
       ELSE IF args.schema_json.kind = "invalid"
       THEN Finish(InvalidSchemaJsonText) /\ UNCHANGED calls
       ELSE /\ calls' = ApiCall(TablesRequest(base'))
            /\ pc' = "await_current"
            /\ UNCHANGED result

\* Lines 653-743: the live tables and the report
CompareTablesReturn ==
    /\ pc = "await_current"
    /\ \E tables_result \in ApiOutcomes(CompareTablesBodies) :
        /\ responses' = Append(responses, tables_result)
        /\ existing_tables' =
              IF "error" \in DOMAIN tables_result THEN <<>> ELSE tables_result.tables
        /\ Finish(CompareReport(tables_result, args.schema_json.tables))
    /\ UNCHANGED <<server_state, args, base, calls, migrateLocals, ti, fj,
                   fields_to_update, update_results>>

InitCompare ==
    /\ server_state \in [base_id : Bases, token : Tokens]
    /\ args \in CompareArgs
    /\ pc = "start"
    /\ base = ""
    /\ calls = <<>>
    /\ responses = <<>>
    /\ field_mapping = <<>>
    /\ source_records = <<>>
    /\ target_records = <<>>
    /\ i = 0
    /\ migrated_count = 0
    /\ existing_tables = <<>>
    /\ ti = 0
    /\ fj = 0
    /\ fields_to_update = <<>>
    /\ update_results = <<>>
    /\ result = NoResult

NextCompare ==
    \/ CompareStart
    \/ CompareTablesReturn

SpecCompare == InitCompare /\ [][NextCompare]_vars

-----------------------------------------------------------------------------
(* Properties of compare_schemas *)

\* compare_schemas has returned its report
CompareReported ==
    /\ args.tool = "compare_schemas"
    /\ pc = "done"
    /\ result.literal = "Schema Comparison Report"

DesiredCompared == args.schema_json.tables
LiveCompared == responses[1].tables
DesiredComparedNames == {DesiredCompared[n].name : n \in DOMAIN DesiredCompared}
LiveComparedNames == {LiveCompared[n].name : n \in DOMAIN LiveCompared}
DesiredComparedTable(name) == CHOOSE t \in Range(DesiredCompared) : t.name = name
LiveComparedTable(name) == CHOOSE t \in Range(LiveCompared) : t.name = name

\* The fields of a table entry as a set, and their names
FieldSet(table) == IF "fields" \in DOMAIN table THEN Range(table.fields) ELSE {}
FieldNameSet(table) == {f.name : f \in FieldSet(table)}

\* The declared type of a field entry: a one-element sequence, empty without one
DeclaredType(f) == IF "type" \in DOMAIN f THEN <<f.type>> ELSE <<>>

\* The field names the report lists for a table under a heading
ReportedFields(name, heading) ==
    UNION {{f[1] : f \in Range(e.fields)} :
              e \in {x \in Range(result.field_differences) :
                        x.table = name /\ x.literal = heading}}

\* C16: the report lists as missing exactly the table names of the desired
\* schema absent from the live one, and as extra exactly the table names of
\* the live schema absent from the desired one, by exact name.
C16_MissingAndExtraTables ==
    CompareReported =>
        /\ Range(result.missing_tables) = DesiredComparedNames \ LiveComparedNames
        /\ Range(result.extra_tables) = LiveComparedNames \ DesiredComparedNames

\* C16 witness: live Projects, Tasks against desired Projects, Archive
C16_Witness ==
    /\ CompareReported
    /\ NamesOf(LiveCompared) = <<"Projects", "Tasks">>
    /\ NamesOf(DesiredCompared) = <<"Projects", "Archive">>
    /\ result.missing_tables = <<"Archive">>
    /\ result.extra_tables = <<"Tasks">>

\* C17: for a table named in both schemas the report lists as missing fields
\* exactly the desired field names the live table lacks, as extra fields
\* exactly the live field names the desired table lacks, and as type
\* differences exactly the fields of both whose declared types are unequal (a
\* desired entry without a type is unequal to any type); nothing is listed
\* for a table named in one schema only.
C17_FieldDifferences ==
    CompareReported =>
        /\ \A e \in Range(result.field_differences) :
              e.table \in DesiredComparedNames \cap LiveComparedNames
        /\ \A name \in DesiredComparedNames \cap LiveComparedNames :
              LET d == DesiredComparedTable(name)
                  l == LiveComparedTable(name)
              IN  /\ ReportedFields(name, "Table '' is missing fields:")
                        = FieldNameSet(d) \ FieldNameSet(l)
                  /\ ReportedFields(name, "Table '' has extra fields:")
                        = FieldNameSet(l) \ FieldNameSet(d)
                  /\ ReportedFields(name, "Table '' has field type differences:")
                        = {f.name : f \in {x \in FieldSet(d) :
                              \E y \in FieldSet(l) :
                                  y.name = x.name /\ DeclaredType(y) # DeclaredType(x)}}

\* C17 witness: a table of both schemas with a missing field and a field of
\* another type, and a second one with an extra field
C17_Witness ==
    /\ CompareReported
    /\ \E name \in DesiredComparedNames \cap LiveComparedNames :
          /\ ReportedFields(name, "Table '' is missing fields:") = {"Status"}
          /\ ReportedFields(name, "Table '' has field type differences:") = {"Name"}
    /\ \E name \in DesiredComparedNames \cap LiveComparedNames :
          ReportedFields(name, "Table '' has extra fields:") = {"Status"}

\* The two schemas have the same tables with the same field names and types
SameSchemas ==
    /\ DesiredComparedNames = LiveComparedNames
    /\ \A name \in DesiredComparedNames :
          {<<f.name, DeclaredType(f)>> : f \in FieldSet(DesiredComparedTable(name))}
              = {<<f.name, DeclaredType(f)>> : f \in FieldSet(LiveComparedTable(name))}

\* C18: when the desired and the live schema have the same tables with the
\* same field names and types, the report lists no missing or extra table and
\* no field difference, and says that the schemas are identical.
C18_SameSchemasReportedIdentical ==
    (CompareReported /\ SameSchemas) =>
        /\ result.missing_tables = <<>>
        /\ result.extra_tables = <<>>
        /\ result.field_differences = <<>>
        /\ result.identical

\* C18 witness: two tables, one of them with two fields, the same on both
\* sides but declared in another order
C18_Witness ==
    /\ CompareReported
    /\ SameSchemas
    /\ Len(DesiredCompared) = 2
    /\ NamesOf(DesiredCompared) # NamesOf(LiveCompared)
    /\ \E n \in DOMAIN DesiredCompared : Len(FieldsOf(DesiredCompared[n])) = 2
    /\ result.identical

-----------------------------------------------------------------------------
(* api_call on its own: server.py and the inspector server's copy of it *)

Variants == {"server", "inspector"}
Methods == {"GET", "POST", "PATCH", "DELETE", "PUT"}
SupportedMethods == {"GET", "POST", "PATCH", "DELETE"}
Endpoints == {<<"meta/bases">>, <<"meta/bases", "appA", "tables">>, <<"appA", "Contacts">>}

ApiArgs ==
    {[tool |-> "api_call", variant |-> v, endpoint |-> e, method |-> meth] :
        v \in Variants, e \in Endpoints, meth \in Methods}

\* What an HTTP request can come to: a 2xx answer with a JSON body or with a
\* body that is not JSON, an error status, a network failure, an upstream
\* that stays silent ("timeout")
HttpOutcomes ==
    {[kind |-> "ok", body |-> b] : b \in {[records |-> <<>>], [tables |-> <<>>], [bases |-> <<>>]}}
        \cup {[kind |-> "unparsable"], [kind |-> "network"], [kind |-> "timeout"]}
        \cup {[kind |-> "status", code |-> c] : c \in {401, 404, 422, 429, 500}}

\* The timeout the inspector server passes to requests; server.py passes none,
\* and requests then waits for the answer without limit
REQUEST_TIMEOUT_SECONDS == 30
NoTimeout == {}
TimeoutOf(variant) == IF variant = "inspector" THEN {REQUEST_TIMEOUT_SECONDS} ELSE NoTimeout

\* except Exception as e: return {"error": str(e)}
CaughtReraised(e) == [raised |-> e]
Caught(e) == [error |-> e]

\* Lines 68-84 (inspector: 137-156): what api_call returns for an outcome
ApiResult(variant, outcome) ==
    CASE outcome.kind = "ok" -> outcome.body
      [] outcome.kind = "unparsable" -> Caught("JSONDecodeError")
      [] outcome.kind = "status" -> Caught(<<"HTTPError", outcome.code>>)
      [] outcome.kind = "network" -> Caught("ConnectionError")
      [] outcome.kind = "timeout" ->
            IF variant = "inspector"
            THEN [error |-> "Request to Airtable timed out after s"]
            ELSE Caught("Timeout")

\* Lines 58-78: the token check, and the request when the method is supported
ApiStart ==
    /\ pc = "start"
    /\ args.tool = "api_call"
    /\ UNCHANGED <<server_state, args, base, responses, migrateLocals, schemaLocals>>
    /\ IF server_state.token = ""
       THEN /\ result' = NoTokenError
            /\ pc' = "done"
            /\ UNCHANGED calls
       ELSE IF args.method \notin SupportedMethods
       THEN /\ result' = Caught(<<"Unsupported method: ", args.method>>)
            /\ pc' = "done"
            /\ UNCHANGED calls
       ELSE /\ calls' = Append(calls, [method |-> args.method, endpoint |-> args.endpoint,
                                       timeout |-> TimeoutOf(args.variant)])
            /\ pc' = "await_http"
            /\ UNCHANGED result

\* Lines 80-84: the HTTP request comes back, or fails.  A silent upstream
\* raises Timeout only in a request that was given a timeout; a request
\* without one never returns.
ApiHttpReturn ==
    /\ pc = "await_http"
    /\ \E outcome \in HttpOutcomes :
        /\ responses' = Append(responses, outcome)
        /\ IF outcome.kind = "timeout" /\ calls[Len(calls)].timeout = NoTimeout
           THEN /\ pc' = "hung"
                /\ UNCHANGED result
           ELSE /\ pc' = "done"
                /\ result' = ApiResult(args.variant, outcome)
    /\ UNCHANGED <<server_state, args, base, calls, migrateLocals, schemaLocals>>

InitApi ==
    /\ server_state \in [base_id : Bases, token : Tokens]
    /\ args \in ApiArgs
    /\ pc = "start"
    /\ base = ""
    /\ calls = <<>>
    /\ responses = <<>>
    /\ field_mapping = <<>>
    /\ source_records = <<>>
    /\ target_records = <<>>
    /\ i = 0
    /\ migrated_count = 0
    /\ existing_tables = <<>>
    /\ ti = 0
    /\ fj = 0
    /\ fields_to_update = <<>>
    /\ update_results = <<>>
    /\ result = NoResult

NextApi ==
    \/ ApiStart
    \/ ApiHttpReturn

SpecApi == InitApi /\ [][NextApi]_vars

ApiReturned == args.tool = "api_call" /\ pc = "done"

\* C19: api_call never raises.  It returns a value with an 'error' field for
\* an unsupported method and for every failed request (error status, network
\* failure, timeout, body that is not JSON), the parsed body otherwise, and
\* without a token it returns an error value and sends no request.
C19_ApiCallNeverRaises ==
    /\ (args.tool = "api_call" /\ server_state.token = "") => calls = <<>>
    /\ ApiReturned =>
          /\ "raised" \notin DOMAIN result
          /\ server_state.token = "" => "error" \in DOMAIN result
          /\ args.method \notin SupportedMethods =>
                "error" \in DOMAIN result /\ calls = <<>>
          /\ responses # <<>> =>
                IF responses[1].kind = "ok"
                THEN result = responses[1].body
                ELSE "error" \in DOMAIN result

\* C19 witness: a request that was answered with an error status
C19_Witness ==
    /\ ApiReturned
    /\ responses # <<>>
    /\ responses[1].kind = "status"
    /\ "error" \in DOMAIN result

TimeoutText == [error |-> "Request to Airtable timed out after s"]

\* C26: every upstream call carries a bounded timeout, and when the upstream
\* stays silent the operation does not hang: it completes with the
\* timeout-specific error, without a second request.
C26_BoundedTimeoutOnEveryCall ==
    args.tool = "api_call" =>
        /\ \A k \in DOMAIN calls : calls[k].timeout # NoTimeout
        /\ pc # "hung"
        /\ (responses # <<>> /\ responses[1].kind = "timeout") =>
              /\ pc = "done"
              /\ result = TimeoutText
              /\ Len(calls) = 1

\* What holds instead: the same, of the inspector server only
C26_InspectorBoundedTimeout ==
    (args.tool = "api_call" /\ args.variant = "inspector") =>
        /\ \A k \in DOMAIN calls : calls[k].timeout = {REQUEST_TIMEOUT_SECONDS}
        /\ pc # "hung"
        /\ (responses # <<>> /\ responses[1].kind = "timeout") =>
              /\ pc = "done"
              /\ result = TimeoutText
              /\ Len(calls) = 1

-----------------------------------------------------------------------------
(* list_bases and list_tables: server.py, and the inspector server's copies *)
(* registered through handle_exceptions                                     *)

MaxEntries == 2

\* The entries a listing response may hold: a base or table object, with or
\* without "fields", without "name", without "id"
ListEntries ==
    {[id |-> "id1", name |-> "One"],
     [id |-> "id2", name |-> "Two", fields |-> <<"f1", "f2">>],
     [id |-> "id3"],
     [name |-> "Four"]}

ListArgs ==
    {[tool |-> "list_bases", variant |-> v] : v \in Variants}
        \cup {[tool |-> "list_tables", variant |-> v, base_id |-> b] :
                v \in Variants, b \in {"", "appB"}}

\* The bodies a listing call can return: with the list, or without its key
ListBodies(key) ==
    {[offset |-> "none"]} \cup {(key :> l) : l \in SeqsUpTo(ListEntries, MaxEntries)}

NeedTokenText(what) ==
    [literal |-> "Please provide an Airtable API token to list ", what |-> what]
NoBaseProvidedText ==
    [literal |-> "Error: No base ID provided. Please specify a base_id or set AIRTABLE_BASE_ID in your .env file."]
ListErrorText(e) == [literal |-> "Error: ", error |-> e]
NoneFoundText(tool) ==
    IF tool = "list_bases"
    THEN [literal |-> "No bases found accessible with your token."]
    ELSE [literal |-> "No tables found in this base."]
ListingText(tool, lines) ==
    [literal |-> IF tool = "list_bases" THEN "Available bases:" ELSE "Tables in this base:",
     lines |-> lines]

\* An exception leaving the function
Raised(e) == [raised |-> e]

\* The key whose subscript fails first in the list comprehension (lines 105,
\* 130): entry['name'] is evaluated before entry['id']
MissingKey(entries) ==
    LET n == CHOOSE k \in DOMAIN entries :
                 /\ {"name", "id"} \ DOMAIN entries[k] # {}
                 /\ \A m \in 1..(k - 1) : {"name", "id"} \subseteq DOMAIN entries[m]
    IN  IF "name" \notin DOMAIN entries[n] THEN "name" ELSE "id"

\* Lines 98-106 and 123-132: what the function comes to for a response
Listing(tool, response) ==
    LET key == IF tool = "list_bases" THEN "bases" ELSE "tables"
        entries == IF key \in DOMAIN response THEN response[key] ELSE <<>>
    IN  IF "error" \in DOMAIN response THEN ListErrorText(response.error)
        ELSE IF entries = <<>> THEN NoneFoundText(tool)
        ELSE IF \E n \in DOMAIN entries : {"name", "id"} \ DOMAIN entries[n] # {}
        THEN Raised(<<"KeyError", MissingKey(entries)>>)
        ELSE ListingText(tool,
                 [n \in DOMAIN entries |->
                     IF tool = "list_bases"
                     THEN <<n, entries[n].name, entries[n].id>>
                     ELSE <<n, entries[n].name, entries[n].id, Len(FieldsOf(entries[n]))>>])

\* inspector_server.py, handle_exceptions: an exception of a tool that
\* returns str becomes the text "Error: ..."; server.py registers its tools
\* without such a wrapper
HandleExceptions(variant, outcome) ==
    IF variant = "inspector" /\ "raised" \in DOMAIN outcome
    THEN ListErrorText(outcome.raised)
    ELSE outcome

\* Lines 93-96 and 113-121: the token check, the base, the request
ListStart ==
    /\ pc = "start"
    /\ args.tool \in {"list_bases", "list_tables"}
    /\ UNCHANGED <<server_state, args, responses, migrateLocals, schemaLocals>>
    /\ IF server_state.token = ""
       THEN /\ Finish(NeedTokenText(IF args.tool = "list_bases"
                                    THEN "your bases." ELSE "tables."))
            /\ UNCHANGED <<calls, base>>
       ELSE IF args.tool = "list_bases"
       THEN /\ calls' = ApiCall([method |-> "GET", endpoint |-> <<"meta/bases">>])
            /\ pc' = "await_list"
            /\ UNCHANGED <<base, result>>
       ELSE /\ base' = IF args.base_id # "" THEN args.base_id ELSE server_state.base_id
            /\ IF base' = ""
               THEN Finish(NoBaseProvidedText) /\ UNCHANGED calls
               ELSE /\ calls' = ApiCall(TablesRequest(base'))
                    /\ pc' = "await_list"
                    /\ UNCHANGED result

\* Lines 98-106 and 123-132: the response and the listing
ListReturn ==
    /\ pc = "await_list"
    /\ \E response \in ApiOutcomes(ListBodies(IF args.tool = "list_bases"
                                              THEN "bases" ELSE "tables")) :
        /\ responses' = Append(responses, response)
        /\ Finish(HandleExceptions(args.variant, Listing(args.tool, response)))
    /\ UNCHANGED <<server_state, args, base, calls, migrateLocals, schemaLocals>>

InitList ==
    /\ server_state \in [base_id : Bases, token : Tokens]
    /\ args \in ListArgs
    /\ pc = "start"
    /\ base = ""
    /\ calls = <<>>
    /\ responses = <<>>
    /\ field_mapping = <<>>
    /\ source_records = <<>>
    /\ target_records = <<>>
    /\ i = 0
    /\ migrated_count = 0
    /\ existing_tables = <<>>
    /\ ti = 0
    /\ fj = 0
    /\ fields_to_update = <<>>
    /\ update_results = <<>>
    /\ result = NoResult

NextList ==
    \/ ListStart
    \/ ListReturn

SpecList == InitList /\ [][NextList]_vars

ListDone == args.tool \in {"list_bases", "list_tables"} /\ pc = "done"

\* C20: no exception leaves a tool invocation: whatever the upstream answers,
\* a successful body with an entry without 'name' or 'id' included, the
\* invocation ends with a text returned to the caller.
C20_NoExceptionEscapes ==
    ListDone => "raised" \notin DOMAIN result

\* What holds instead: only the tools registered through handle_exceptions
\* turn the KeyError into a text
C20_OnlyWrappedToolsReturn ==
    ListDone => ("raised" \in DOMAIN result => args.variant = "server")

-----------------------------------------------------------------------------
(* The record tools: list_records, get_record, create_records,
   update_records, export_records *)

MaxUpdates == 3

RecordTable == "Contacts"

\* The entries of records_json: JSON objects with an id and direct fields,
\* with an id and a "fields" object, with an id alone, and without an id
RecordEntries ==
    {[id |-> "rec1", Name |-> "a"],
     [id |-> "rec2", fields |-> [Name |-> "b"]],
     [id |-> "rec3"],
     [Name |-> "c"],
     [fields |-> [Name |-> "d"]]}

\* records_json: not JSON, a number, one object, or a list of objects
RecordsJsons ==
    {[kind |-> "invalid"], [kind |-> "number", value |-> 5]}
        \cup {[kind |-> "object", value |-> r] : r \in RecordEntries}
        \cup {[kind |-> "list", value |-> l] : l \in SeqsUpTo(RecordEntries, MaxUpdates)}

RecordsJsonArgs(tool) ==
    {[tool |-> tool, table_name |-> RecordTable, records_json |-> j] : j \in RecordsJsons}

ReadArgs ==
    {[tool |-> "list_records", table_name |-> RecordTable, max_records |-> 100,
      filter_formula |-> f] : f \in {"", "{Name} = 'a'"}}
        \cup {[tool |-> "export_records", table_name |-> RecordTable, max_records |-> 100],
              [tool |-> "get_record", table_name |-> RecordTable, record_id |-> "rec1"]}

\* The records a table can return, and one record
LiveRecords ==
    {<<>>,
     <<[id |-> "rec1", fields |-> [Name |-> "a"]]>>,
     <<[id |-> "rec1", fields |-> [Name |-> "a"]], [fields |-> [Name |-> "b"]]>>}
LiveRecordBodies == {[id |-> "rec1", fields |-> [Name |-> "a"]], [id |-> "rec1"]}

ApiErrorText(e) == [literal |-> "Error: ", error |-> e]
NoRecordsText == [literal |-> "No records found in this table."]
RecordsText(lines) == [literal |-> "Records:\n", lines |-> lines]
RecordNoFieldsText(id) == [literal |-> "Record  found but contains no fields.", id |-> id]
RecordText(id, fields) == [literal |-> "Record ID: \n", id |-> id, fields |-> fields]
ExportedText(records) == [literal |-> "json.dumps", records |-> records]
InvalidRecordsJsonText ==
    [literal |-> "Error: Invalid JSON format in records_json parameter."]
CreatedRecordsText(n) == [literal |-> "Successfully created  records.", count |-> n]
MissingIdText == [literal |-> "Error: Each record must have an 'id' field."]
UpdatedRecordsText(n) == [literal |-> "Successfully updated  records.", count |-> n]
ErrorUpdatingRecordsText(e) == [literal |-> "Error updating records: ", error |-> e]

ListRecordsRequest(b, table, max, formula) ==
    [method |-> "GET", endpoint |-> <<b, table>>,
     params |-> IF formula = "" THEN [maxRecords |-> max]
                ELSE [maxRecords |-> max, filterByFormula |-> formula]]
GetRecordRequest(b, table, id) ==
    [method |-> "GET", endpoint |-> <<b, table, id>>]
UpdateRecordsRequest(b, table, records) ==
    [method |-> "PATCH", endpoint |-> <<b, table>>, data |-> [records |-> records]]

\* if not base
MissingBaseNever(b) == FALSE
MissingBase(b) == b = ""

\* record.get(key, default)
GetOr(record, key, default) == IF key \in DOMAIN record THEN record[key] ELSE default

\* if not isinstance(records_data, list): records_data = [records_data]
RecordsData(json) == IF json.kind = "list" THEN json.value ELSE <<json.value>>

\* record.pop("id")
WithoutId(record) == [k \in DOMAIN record \ {"id"} |-> record[k]]

\* Lines 243-247: one entry of the PATCH
UpdateEntryKeepingId(record) ==
    [id |-> record.id, fields |-> GetOr(record, "fields", record)]
UpdateEntry(record) ==
    [id |-> record.id, fields |-> GetOr(WithoutId(record), "fields", WithoutId(record))]

\* Lines 205 and 241-247: the records of the request
CreateEntries(records_data) ==
    [n \in DOMAIN records_data |-> [fields |-> records_data[n]]]
UpdateEntries(records_data) ==
    [n \in DOMAIN records_data |-> UpdateEntry(records_data[n])]

\* if "id" not in record, over the list
LacksId(records_data) ==
    \E n \in DOMAIN records_data : "id" \notin DOMAIN records_data[n]

\* Lines 135-146, 168-176, 292-301: the base check and the request of a read
ReadStart ==
    /\ pc = "start"
    /\ args.tool \in {"list_records", "get_record", "export_records"}
    /\ base' = server_state.base_id
    /\ UNCHANGED <<server_state, args, responses, migrateLocals, schemaLocals>>
    /\ IF MissingBase(server_state.base_id)
       THEN Finish(NoBaseText) /\ UNCHANGED calls
       ELSE /\ calls' = ApiCall(
                  CASE args.tool = "list_records" ->
                          ListRecordsRequest(base', args.table_name, args.max_records,
                                             args.filter_formula)
                    [] args.tool = "export_records" ->
                          ListRecordsRequest(base', args.table_name, args.max_records, "")
                    [] args.tool = "get_record" ->
                          GetRecordRequest(base', args.table_name, args.record_id))
            /\ pc' = "await_read"
            /\ UNCHANGED result

\* f"{i+1}. ID: {record_id} - {field_text}"
RecordLine(n, record) ==
    [n |-> n, id |-> GetOr(record, "id", "unknown"), fields |-> GetOr(record, "fields", <<>>)]

\* {"id": record.get("id", ""), **record.get("fields", {})}
ExportedRecord(record) ==
    [id |-> GetOr(record, "id", ""), fields |-> GetOr(record, "fields", <<>>)]

\* Lines 148-165, 178-190, 303-319: what a read makes of its response
ReadText(tool, read_result) ==
    IF "error" \in DOMAIN read_result THEN ApiErrorText(read_result.error)
    ELSE IF tool = "get_record"
    THEN IF DOMAIN GetOr(read_result, "fields", <<>>) = {}
         THEN RecordNoFieldsText(args.record_id)
         ELSE RecordText(args.record_id, read_result.fields)
    ELSE LET records == GetOr(read_result, "records", <<>>)
         IN  IF records = <<>> THEN NoRecordsText
             ELSE IF tool = "list_records"
             THEN RecordsText([n \in DOMAIN records |-> RecordLine(n, records[n])])
             ELSE ExportedText([n \in DOMAIN records |-> ExportedRecord(records[n])])

ReadReturn ==
    /\ pc = "await_read"
    /\ \E read_result \in ApiOutcomes(IF args.tool = "get_record" THEN LiveRecordBodies
                                      ELSE {[records |-> l] : l \in LiveRecords}
                                               \cup {[offset |-> "none"]}) :
        /\ responses' = Append(responses, read_result)
        /\ Finish(ReadText(args.tool, read_result))
    /\ UNCHANGED <<server_state, args, base, calls, migrateLocals, schemaLocals>>

\* Lines 193-209 and 225-250: the base check, the records argument, the request
WriteStart ==
    /\ pc = "start"
    /\ args.tool \in {"create_records", "update_records"}
    /\ base' = server_state.base_id
    /\ UNCHANGED <<server_state, args, responses, migrateLocals, schemaLocals>>
    /\ IF MissingBase(server_state.base_id)
       THEN Finish(NoBaseText) /\ UNCHANGED calls
       ELSE IF args.records_json.kind = "invalid"
       THEN Finish(InvalidRecordsJsonText) /\ UNCHANGED calls
       ELSE IF args.tool = "create_records"
       THEN /\ calls' = ApiCall(CreateRecordsRequest(base', args.table_name,
                                    CreateEntries(RecordsData(args.records_json))))
            /\ pc' = "await_write"
            /\ UNCHANGED result
       \* "id" not in 5 raises TypeError, caught at line 260
       ELSE IF args.records_json.kind = "number"
       THEN Finish(ErrorUpdatingRecordsText("TypeError")) /\ UNCHANGED calls
       ELSE IF LacksId(RecordsData(args.records_json))
       THEN Finish(MissingIdText) /\ UNCHANGED calls
       ELSE /\ calls' = ApiCall(UpdateRecordsRequest(base', args.table_name,
                                    UpdateEntries(RecordsData(args.records_json))))
            /\ pc' = "await_write"
            /\ UNCHANGED result

\* Lines 211-215 and 252-256: the outcome of the write
WriteReturn ==
    /\ pc = "await_write"
    /\ \E write_result \in ApiOutcomes(CreateBodies(RecordsData(args.records_json))) :
        /\ responses' = Append(responses, write_result)
        /\ Finish(IF "error" \in DOMAIN write_result
                  THEN ApiErrorText(write_result.error)
                  ELSE IF args.tool = "create_records"
                  THEN CreatedRecordsText(CreatedCount(write_result))
                  ELSE UpdatedRecordsText(CreatedCount(write_result)))
    /\ UNCHANGED <<server_state, args, base, calls, migrateLocals, schemaLocals>>

-----------------------------------------------------------------------------
(* delete_records: server.py, and the packaged server's copy of it *)

MaxIds == 3
PackagedBatchSize == 10
\* More ids than one batch of the packaged server holds
ManyIds == PackagedBatchSize + 1

\* A string is the sequence of its characters
RECURSIVE JoinComma(_)
JoinComma(pieces) ==
    IF pieces = <<>> THEN <<>>
    ELSE IF Len(pieces) = 1 THEN pieces[1]
    ELSE pieces[1] \o <<",">> \o JoinComma(Tail(pieces))

\* The pieces a caller may put between the commas of record_ids
IdPieces == {<<>>, <<" ">>, <<"r">>, <<" ", "r", " ">>, <<"s">>}

\* record_ids: up to MaxIds pieces joined by commas
RecordIdStrings == {JoinComma(ps) : ps \in SeqsUpTo(IdPieces, MaxIds)}

DeleteVariants == {"server", "packaged"}

\* ... and ManyIds ids, more than one batch of the packaged server
DeleteArgs ==
    {[tool |-> "delete_records", variant |-> v, table_name |-> RecordTable,
      record_ids |-> ids] : v \in DeleteVariants, ids \in RecordIdStrings}
        \cup {[tool |-> "delete_records", variant |-> "packaged", table_name |-> RecordTable,
               record_ids |-> JoinComma([n \in 1..ManyIds |-> <<"r">>])]}

\* str.split(",")
RECURSIVE SplitComma(_)
SplitComma(str) ==
    IF \E n \in DOMAIN str : str[n] = ","
    THEN LET n == CHOOSE n \in DOMAIN str :
                      str[n] = "," /\ \A m \in 1..(n - 1) : str[m] # ","
         IN  <<SubSeq(str, 1, n - 1)>> \o SplitComma(SubSeq(str, n + 1, Len(str)))
    ELSE <<str>>

\* str.strip()
RECURSIVE Strip(_)
Strip(str) ==
    IF str # <<>> /\ Head(str) = " " THEN Strip(Tail(str))
    ELSE IF str # <<>> /\ str[Len(str)] = " " THEN Strip(SubSeq(str, 1, Len(str) - 1))
    ELSE str

\* [id.strip() for id in record_ids.split(",")]
ParseIds(record_ids) ==
    LET parts == SplitComma(record_ids) IN [n \in DOMAIN parts |-> Strip(parts[n])]

NoRecordIdsText == [literal |-> "Error: No record IDs provided."]
DeletedOutOfText(n, total) ==
    [literal |-> "Successfully deleted  out of  records.", count |-> n, total |-> total]
PackagedNeedTokenText ==
    [literal |-> "Please provide an Airtable API token to delete records."]
PackagedNoBaseText == [literal |-> "Error: No base ID set. Please set a base ID."]
ErrorDeletingText(e) == [literal |-> "Error deleting records: ", error |-> e]
DeletedText(n) == [literal |-> "Successfully deleted  records.", count |-> n]

DeleteRecordRequest(b, table, record_id) ==
    [method |-> "DELETE", endpoint |-> <<b, table, record_id>>]
DeleteBatchRequest(b, table, batch) ==
    [method |-> "DELETE", endpoint |-> <<b, table>>, params |-> [records |-> batch]]

\* ids_list[i:i+10]
IdBatch(ids, offset) ==
    SubSeq(ids, offset + 1, Min(offset + PackagedBatchSize, Len(ids)))

\* The request for the ids from offset on
DeleteRequest(variant, b, table, ids, offset) ==
    IF variant = "server" THEN DeleteRecordRequest(b, table, ids[offset + 1])
    ELSE DeleteBatchRequest(b, table, IdBatch(ids, offset))

\* How far one request takes the loop
DeleteStride(variant) == IF variant = "server" THEN 1 ELSE PackagedBatchSize

\* deleted_count: one per call without "error" in server.py,
\* len(result.get("records", [])) per batch in the packaged server
RECURSIVE DeletedCount(_, _)
DeletedCount(variant, results) ==
    IF results = <<>> THEN 0
    ELSE DeletedCount(variant, Tail(results))
            + (IF "error" \in DOMAIN Head(results) THEN 0
               ELSE IF variant = "server" THEN 1
               ELSE CreatedCount(Head(results)))

\* A failed call ends the loop of the packaged server only
DeleteAborts(variant) == variant = "packaged"

\* Lines 264-282 (packaged: 291-316): the checks, the ids, the first request
DeleteStart ==
    /\ pc = "start"
    /\ args.tool = "delete_records"
    /\ UNCHANGED <<server_state, args, responses, field_mapping, source_records,
                   target_records, migrated_count, schemaLocals>>
    /\ IF args.variant = "packaged" /\ server_state.token = ""
       THEN Finish(PackagedNeedTokenText) /\ UNCHANGED <<calls, base, i>>
       ELSE /\ base' = server_state.base_id
            /\ IF MissingBase(server_state.base_id)
               THEN /\ Finish(IF args.variant = "server" THEN NoBaseText
                              ELSE PackagedNoBaseText)
                    /\ UNCHANGED <<calls, i>>
               ELSE LET ids == ParseIds(args.record_ids)
                    IN  IF ids = <<>>
                        THEN /\ Finish(IF args.variant = "server" THEN NoRecordIdsText
                                       ELSE DeletedText(0))
                             /\ UNCHANGED <<calls, i>>
                        ELSE /\ calls' = ApiCall(DeleteRequest(args.variant, base',
                                             args.table_name, ids, 0))
                             /\ i' = 0
                             /\ pc' = "await_delete"
                             /\ UNCHANGED result

\* Lines 282-286 (packaged: 318-323): one outcome, then the next request or
\* the summary
DeleteReturn ==
    /\ pc = "await_delete"
    /\ LET ids == ParseIds(args.record_ids)
       IN  \E delete_result \in ApiOutcomes({[records |-> Len(IdBatch(ids, i))],
                                              [deleted |-> TRUE]}) :
            /\ responses' = Append(responses, delete_result)
            /\ IF "error" \in DOMAIN delete_result /\ DeleteAborts(args.variant)
               THEN /\ Finish(ErrorDeletingText(delete_result.error))
                    /\ UNCHANGED <<calls, i>>
               ELSE /\ i' = i + DeleteStride(args.variant)
                    /\ IF i' < Len(ids)
                       THEN /\ calls' = ApiCall(DeleteRequest(args.variant, base,
                                            args.table_name, ids, i'))
                            /\ UNCHANGED <<pc, result>>
                       ELSE /\ Finish(IF args.variant = "server"
                                      THEN DeletedOutOfText(
                                               DeletedCount(args.variant, responses'),
                                               Len(ids))
                                      ELSE DeletedText(
                                               DeletedCount(args.variant, responses')))
                            /\ UNCHANGED calls
    /\ UNCHANGED <<server_state, args, base, field_mapping, source_records,
                   target_records, migrated_count, schemaLocals>>

RecordArgs ==
    ReadArgs \cup RecordsJsonArgs("create_records") \cup RecordsJsonArgs("update_records")
        \cup DeleteArgs

InitRecords ==
    /\ server_state \in [base_id : Bases, token : Tokens]
    /\ args \in RecordArgs
    /\ pc = "start"
    /\ base = ""
    /\ calls = <<>>
    /\ responses = <<>>
    /\ field_mapping = <<>>
    /\ source_records = <<>>
    /\ target_records = <<>>
    /\ i = 0
    /\ migrated_count = 0
    /\ existing_tables = <<>>
    /\ ti = 0
    /\ fj = 0
    /\ fields_to_update = <<>>
    /\ update_results = <<>>
    /\ result = NoResult

NextRecords ==
    \/ ReadStart
    \/ ReadReturn
    \/ WriteStart
    \/ WriteReturn
    \/ DeleteStart
    \/ DeleteReturn

SpecRecords == InitRecords /\ [][NextRecords]_vars

-----------------------------------------------------------------------------
(* Properties of the record tools *)

\* update_records was invoked with a base set, a token configured and
\* records_json holding an object or a list of objects
UpdateValidated ==
    /\ args.tool = "update_records"
    /\ server_state.base_id # ""
    /\ server_state.token # ""
    /\ args.records_json.kind \in {"object", "list"}
    /\ pc # "start"

PatchCalls == SelectSeq(calls, LAMBDA c : c.method = "PATCH")

\* C23: update_records with a base and a token.  If any record of the list
\* lacks an 'id', wherever it sits, the result is the invalid-input error and
\* no PATCH is issued; otherwise exactly one PATCH is issued, whose i-th
\* entry carries the i-th record's id and its fields without the id.
C23_UpdateAllOrNothing ==
    UpdateValidated =>
        LET records_data == RecordsData(args.records_json)
        IN  IF \E n \in DOMAIN records_data : "id" \notin DOMAIN records_data[n]
            THEN /\ pc = "done"
                 /\ result = MissingIdText
                 /\ calls = <<>>
            ELSE /\ Len(calls) = 1
                 /\ calls[1].method = "PATCH"
                 /\ calls[1].endpoint = <<server_state.base_id, args.table_name>>
                 /\ Len(calls[1].data.records) = Len(records_data)
                 /\ \A n \in DOMAIN records_data :
                      LET entry == calls[1].data.records[n]
                          record == records_data[n]
                      IN  /\ entry.id = record.id
                          /\ "id" \notin DOMAIN entry.fields
                          /\ entry.fields =
                                IF "fields" \in DOMAIN record THEN record.fields
                                ELSE [k \in DOMAIN record \ {"id"} |-> record[k]]

\* C23 witness: a list of three records whose last one lacks the id was refused
C23_Witness ==
    /\ UpdateValidated
    /\ args.records_json.kind = "list"
    /\ Len(args.records_json.value) = 3
    /\ "id" \in DOMAIN args.records_json.value[1]
    /\ "id" \in DOMAIN args.records_json.value[2]
    /\ "id" \notin DOMAIN args.records_json.value[3]
    /\ pc = "done"
    /\ result = MissingIdText

\* The record ids a DELETE call carries
CallIds(c) == IF "params" \in DOMAIN c THEN c.params.records ELSE <<c.endpoint[3]>>

RECURSIVE AttemptedIds(_)
AttemptedIds(cs) == IF cs = <<>> THEN <<>> ELSE CallIds(Head(cs)) \o AttemptedIds(Tail(cs))

\* delete_records has returned after an upstream failure of some delete call
DeleteFailedSomewhere ==
    /\ args.tool = "delete_records"
    /\ pc = "done"
    /\ server_state.token # ""
    /\ \E k \in DOMAIN responses : "error" \in DOMAIN responses[k]

\* C24: when the deletion of some id fails upstream, the result of
\* delete_records still states how many records were deleted (the count of
\* successful delete calls), and the ids after the failed one are attempted.
C24_DeleteReportsCountAfterFailure ==
    (DeleteFailedSomewhere /\ Len(ParseIds(args.record_ids)) >= 2) =>
        /\ "count" \in DOMAIN result
        /\ result.count = DeletedCount(args.variant, responses)
        /\ AttemptedIds(calls) = ParseIds(args.record_ids)

\* What holds instead: the same, of server.py's delete_records only
C24_ServerDeleteReportsCount ==
    (DeleteFailedSomewhere /\ args.variant = "server") =>
        /\ result = DeletedOutOfText(
                        Cardinality({k \in DOMAIN responses :
                                        "error" \notin DOMAIN responses[k]}),
                        Len(ParseIds(args.record_ids)))
        /\ AttemptedIds(calls) = ParseIds(args.record_ids)

\* C28: server.py's delete_records never issues a DELETE call for an empty
\* record id, and for an empty or whitespace-only record_ids it returns
\* 'No record IDs provided.' without any call.
C28_NoDeleteForEmptyId ==
    (args.tool = "delete_records" /\ args.variant = "server") =>
        /\ \A k \in DOMAIN calls : calls[k].endpoint[3] # <<>>
        /\ (pc = "done" /\ server_state.base_id # "" /\ Strip(args.record_ids) = <<>>) =>
              /\ result = NoRecordIdsText
              /\ calls = <<>>

\* What holds instead: every piece between two commas is sent, stripped,
\* the empty ones included
C28_EveryPieceIsSent ==
    (args.tool = "delete_records" /\ args.variant = "server" /\ pc = "done"
        /\ server_state.base_id # "" /\ server_state.token # "") =>
        /\ result.literal # NoRecordIdsText.literal
        /\ Len(calls) = Len(SplitComma(args.record_ids))
        /\ \A k \in DOMAIN calls :
              calls[k].endpoint[3] = Strip(SplitComma(args.record_ids)[k])

-----------------------------------------------------------------------------
(* create_tables as a tool of its own, inspect_table, export_schema,
   set_base_id *)

CreateTablesArgs ==
    {[tool |-> "create_tables", schema_json |-> j] :
        j \in {[kind |-> "invalid"],
               [kind |-> "object", tables |-> <<>>],
               [kind |-> "object", tables |-> <<[name |-> "Tasks"]>>],
               [kind |-> "object",
                tables |-> <<[name |-> "Projects",
                              fields |-> <<[name |-> "Name", type |-> "singleLineText"]>>]>>],
               [kind |-> "object",
                tables |-> <<[name |-> "Projects", fields |-> <<[name |-> "Notes"]>>],
                             [name |-> "Tasks", description |-> "About",
                              fields |-> <<[name |-> "Name", type |-> "singleLineText"]>>]>>]}}

MetaArgs ==
    {[tool |-> "inspect_table", table_name |-> t] : t \in {"Contacts", MissingTable}}
        \cup {[tool |-> "export_schema", output_format |-> f] : f \in {"json", "csv", "CSV"}}

\* set_base_id takes any string
SetBaseArgs == {[tool |-> "set_base_id", base_id |-> b] : b \in {"", "appA", "appB"}}

\* The bodies the metadata call can return to inspect_table and export_schema
MetaBodies ==
    {[offset |-> "none"],
     [tables |-> <<TableOf("Contacts", <<"Email">>)>>],
     [tables |-> <<TableOf("Contacts", <<"Email">>), NamelessTable>>],
     [tables |-> <<NamelessTable, TableOf("Contacts", <<"Email">>)>>]}

TableNotFoundText(t) == [literal |-> "Error: Table '' not found in base.", table |-> t]
InspectErrorText(e) == [literal |-> "Error inspecting table: ", error |-> e]
InspectedText(t, table, lines) ==
    [literal |-> "Table:  (ID: )", table |-> t, id |-> GetOr(table, "id", "unknown"),
     description |-> GetOr(table, "description", "No description"), fields |-> lines]
NoTablesFoundText == [literal |-> "No tables found in the base."]
SchemaJsonText(schema) == [literal |-> "json.dumps", schema |-> schema]
SchemaCsvText(rows) ==
    [literal |-> "table_name,field_name,field_type,field_description", rows |-> rows]
BaseSetText(b) == [literal |-> "Base ID set to: ", base_id |-> b]

\* The first table from t on that has "name" and "fields" (lines 347-349)
RECURSIVE NextCreated(_, _)
NextCreated(tables, t) ==
    IF t > Len(tables) \/ ~TableSkipped(tables[t]) THEN t ELSE NextCreated(tables, t + 1)

\* Send the creation call of table t, or return the lines when none is left
ProceedCreating(b, t, lines) ==
    /\ update_results' = lines
    /\ ti' = t
    /\ IF t > Len(args.schema_json.tables)
       THEN Finish(JoinedText(lines)) /\ UNCHANGED calls
       ELSE /\ calls' = ApiCall(CreateTableRequest(b,
                            CreateTableData(args.schema_json.tables[t])))
            /\ pc' = "await_created"
            /\ UNCHANGED result

\* Lines 332-376: the base check, the schema argument, the first creation call
CreateTablesStart ==
    /\ pc = "start"
    /\ args.tool = "create_tables"
    /\ base' = server_state.base_id
    /\ UNCHANGED <<server_state, args, responses, migrateLocals, existing_tables, fj,
                   fields_to_update>>
    /\ IF MissingBase(server_state.base_id)
       THEN Finish(NoBaseText) /\ UNCHANGED <<calls, ti, update_results>>
       ELSE IF args.schema_json.kind = "invalid"
       THEN Finish(InvalidSchemaJsonText) /\ UNCHANGED <<calls, ti, update_results>>
       ELSE IF args.schema_json.tables = <<>>
       THEN Finish(NoTablesText) /\ UNCHANGED <<calls, ti, update_results>>
       ELSE ProceedCreating(base', NextCreated(args.schema_json.tables, 1), <<>>)

\* Lines 378-383: the outcome of a creation call, then the next table
CreateTablesReturn ==
    /\ pc = "await_created"
    /\ \E create_result \in ApiOutcomes({[id |-> "new"]}) :
        LET table == args.schema_json.tables[ti]
            line == IF "error" \in DOMAIN create_result
                    THEN CreateFailedText(table.name, create_result.error)
                    ELSE CreatedText(table.name, Len(CreateTableData(table).fields))
        IN  /\ responses' = Append(responses, create_result)
            /\ ProceedCreating(base, NextCreated(args.schema_json.tables, ti + 1),
                               Append(update_results, line))
    /\ UNCHANGED <<server_state, args, base, migrateLocals, existing_tables, fj,
                   fields_to_update>>

\* Lines 514-524 and 567-577: the base check and the metadata request
MetaStart ==
    /\ pc = "start"
    /\ args.tool \in {"inspect_table", "export_schema"}
    /\ base' = server_state.base_id
    /\ UNCHANGED <<server_state, args, responses, migrateLocals, schemaLocals>>
    /\ IF MissingBase(server_state.base_id)
       THEN Finish(NoBaseText) /\ UNCHANGED calls
       ELSE /\ calls' = ApiCall(TablesRequest(base'))
            /\ pc' = "await_meta"
            /\ UNCHANGED result

\* next((t for t in tables if t["name"] == table_name), None): the index of
\* the table, 0 when there is none, -1 when an entry before it has no "name"
RECURSIVE FirstNamed(_, _, _)
FirstNamed(tables, table_name, n) ==
    IF n > Len(tables) THEN 0
    ELSE IF "name" \notin DOMAIN tables[n] THEN -1
    ELSE IF tables[n].name = table_name THEN n
    ELSE FirstNamed(tables, table_name, n + 1)

\* Lines 543-548: the lines of a field
FieldDetails(fields) ==
    [n \in DOMAIN fields |->
        [n |-> n, name |-> GetOr(fields[n], "name", "Unnamed Field"),
         type |-> GetOr(fields[n], "type", "unknown"),
         id |-> GetOr(fields[n], "id", "unknown")]]

\* Lines 526-563: what inspect_table makes of the metadata response
InspectText(tables_result, table_name) ==
    IF "error" \in DOMAIN tables_result THEN AccessTablesErrorText(tables_result.error)
    ELSE LET tables == GetOr(tables_result, "tables", <<>>)
             n == FirstNamed(tables, table_name, 1)
         IN  IF n = -1 THEN InspectErrorText(<<"KeyError", "name">>)
             ELSE IF n = 0 THEN TableNotFoundText(table_name)
             ELSE InspectedText(table_name, tables[n],
                                FieldDetails(GetOr(tables[n], "fields", <<>>)))

\* Lines 592-612: the exported form of a table
ExportedTable(table) ==
    [name |-> GetOr(table, "name", "Unnamed Table"), id |-> GetOr(table, "id", ""),
     description |-> GetOr(table, "description", ""),
     fields |-> [n \in DOMAIN GetOr(table, "fields", <<>>) |->
                    [name |-> GetOr(table.fields[n], "name", "Unnamed Field"),
                     id |-> GetOr(table.fields[n], "id", ""),
                     type |-> GetOr(table.fields[n], "type", "unknown"),
                     description |-> GetOr(table.fields[n], "description", "")]]]

\* Lines 579-634: what export_schema makes of the metadata response
ExportSchemaText(tables_result, output_format) ==
    IF "error" \in DOMAIN tables_result THEN AccessTablesErrorText(tables_result.error)
    ELSE LET tables == GetOr(tables_result, "tables", <<>>)
             schema == [tables |-> [n \in DOMAIN tables |-> ExportedTable(tables[n])]]
         IN  IF tables = <<>> THEN NoTablesFoundText
             ELSE IF Lower(output_format) = "csv"
             THEN SchemaCsvText([n \in DOMAIN schema.tables |->
                      [f \in DOMAIN schema.tables[n].fields |->
                          <<schema.tables[n].name, schema.tables[n].fields[f].name,
                            schema.tables[n].fields[f].type,
                            schema.tables[n].fields[f].description>>]])
             ELSE SchemaJsonText(schema)

MetaReturn ==
    /\ pc = "await_meta"
    /\ \E tables_result \in ApiOutcomes(MetaBodies) :
        /\ responses' = Append(responses, tables_result)
        /\ Finish(IF args.tool = "inspect_table"
                  THEN InspectText(tables_result, args.table_name)
                  ELSE ExportSchemaText(tables_result, args.output_format))
    /\ UNCHANGED <<server_state, args, base, calls, migrateLocals, schemaLocals>>

\* Lines 506-510: set_base_id
SetBaseIdKeepingBase(b) == server_state
SetBaseIdTo(b) == [server_state EXCEPT !.base_id = b]

SetBaseId ==
    /\ pc = "start"
    /\ args.tool = "set_base_id"
    /\ server_state' = SetBaseIdTo(args.base_id)
    /\ Finish(BaseSetText(args.base_id))
    /\ UNCHANGED <<args, base, calls, responses, migrateLocals, schemaLocals>>

-----------------------------------------------------------------------------
(* A session: one invocation after the other, on the state the server keeps *)

\* The invocations of a session: every tool of server.py, with few arguments
SessionArgs ==
    ReadArgs \cup CreateTablesArgs \cup MetaArgs \cup SetBaseArgs
        \cup {a \in RecordsJsonArgs("create_records") \cup RecordsJsonArgs("update_records") :
                a.records_json.kind # "list"}
        \cup {a \in DeleteArgs : a.variant = "server" /\ Len(a.record_ids) <= 1}
        \cup {a \in ListArgs : a.variant = "server"}
        \cup {a \in MigrateArgs :
                /\ a.max_records = 1
                /\ a.source_table = "Contacts"
                /\ a.target_table = "People"
                /\ a.mapping_json.kind \in {"absent", "invalid"}}
        \cup {a \in SchemaArgs :
                a.schema_json.kind = "object" =>
                    /\ Len(a.schema_json.tables) <= 1
                    /\ \A n \in DOMAIN a.schema_json.tables :
                          "fields" \in DOMAIN a.schema_json.tables[n] =>
                              Len(a.schema_json.tables[n].fields) <= 1}
        \cup {a \in MappingArgs : a.source_table = "Contacts" /\ a.target_table = "People"}
        \cup {a \in CompareArgs :
                a.schema_json.kind = "object" => Len(a.schema_json.tables) <= 1}

\* The tool has returned; the next request of the client starts afresh
NextInvocation ==
    /\ pc = "done"
    /\ args' \in SessionArgs
    /\ pc' = "start"
    /\ base' = ""
    /\ calls' = <<>>
    /\ responses' = <<>>
    /\ field_mapping' = <<>>
    /\ source_records' = <<>>
    /\ target_records' = <<>>
    /\ i' = 0
    /\ migrated_count' = 0
    /\ existing_tables' = <<>>
    /\ ti' = 0
    /\ fj' = 0
    /\ fields_to_update' = <<>>
    /\ update_results' = <<>>
    /\ result' = NoResult
    /\ UNCHANGED server_state

InitSession ==
    /\ server_state \in [base_id : Bases, token : Tokens]
    /\ args \in SessionArgs
    /\ pc = "start"
    /\ base = ""
    /\ calls = <<>>
    /\ responses = <<>>
    /\ field_mapping = <<>>
    /\ source_records = <<>>
    /\ target_records = <<>>
    /\ i = 0
    /\ migrated_count = 0
    /\ existing_tables = <<>>
    /\ ti = 0
    /\ fj = 0
    /\ fields_to_update = <<>>
    /\ update_results = <<>>
    /\ result = NoResult

NextSession ==
    \/ NextMigrate
    \/ NextSchema
    \/ NextMapping
    \/ NextCompare
    \/ NextList
    \/ NextRecords
    \/ CreateTablesStart
    \/ CreateTablesReturn
    \/ MetaStart
    \/ MetaReturn
    \/ SetBaseId
    \/ NextInvocation

SpecSession == InitSession /\ [][NextSession]_vars

-----------------------------------------------------------------------------
(* Properties of a session *)

\* The tools that work on the current base
BaseTools ==
    {"list_records", "get_record", "create_records", "update_records", "delete_records",
     "export_records", "create_tables", "update_schema", "inspect_table", "export_schema",
     "compare_schemas", "generate_field_mapping", "migrate_data"}

\* C22: whenever the current base is empty, every tool that works on the
\* current base returns the missing-base error and issues no upstream call.
C22_NoBaseNoCall ==
    (args.tool \in BaseTools /\ server_state.base_id = "" /\ pc # "start") =>
        /\ pc = "done"
        /\ result = NoBaseText
        /\ calls = <<>>

\* C22 witness: export_schema returned the missing-base error although a
\* token is configured
C22_Witness ==
    /\ args.tool = "export_schema"
    /\ server_state.base_id = ""
    /\ server_state.token # ""
    /\ pc = "done"
    /\ result = NoBaseText
    /\ calls = <<>>

\* C25: the current base is changed only by set_base_id, which sets it to
\* its argument, leaves the token unchanged and issues no upstream call; no
\* other tool changes it, list_tables with an explicit base_id included.
C25_OnlySetBaseIdChangesBase ==
    [][/\ server_state' # server_state => (args.tool = "set_base_id" /\ pc = "start")
       /\ (args.tool = "set_base_id" /\ pc = "start") =>
             /\ server_state'.base_id = args.base_id
             /\ server_state'.token = server_state.token
             /\ calls' = <<>>
             /\ pc' = "done"
       /\ args.tool = "list_tables" => server_state' = server_state]_vars

\* C25 witness: a later invocation reads the base that only set_base_id can
\* have stored
C25_Witness ==
    /\ args.tool = "list_records"
    /\ pc = "await_read"
    /\ base = "appB"
    /\ server_state.base_id = "appB"

\* The literals that begin with "Error:"
ErrorColonLiterals ==
    {NoBaseText.literal, SourceNotFoundText("").literal, TargetNotFoundText("").literal,
     InvalidMappingJsonText.literal, InvalidSchemaJsonText.literal, NoTablesText.literal,
     ApiErrorText("").literal, NoBaseProvidedText.literal, InvalidRecordsJsonText.literal,
     MissingIdText.literal, NoRecordIdsText.literal, PackagedNoBaseText.literal,
     TableNotFoundText("").literal}

\* The literals of the other texts that report a failure
OtherFailureLiterals ==
    {AccessTablesErrorText("").literal, AccessSourceErrorText("").literal,
     CreateErrorText("").literal, GenerateErrorText("").literal,
     CompareErrorText("").literal, NeedTokenText("").literal}

\* text.startswith("Error:")
BeginsWithErrorColon(t) == "literal" \in DOMAIN t /\ t.literal \in ErrorColonLiterals

\* The tools that stop at the first failed upstream call
FailFastTools ==
    {"list_bases", "list_tables", "list_records", "get_record", "export_records",
     "create_records", "update_records", "inspect_table", "export_schema",
     "compare_schemas", "generate_field_mapping", "migrate_data"}

\* The invocation has returned after a missing token, a missing base or an
\* upstream error
FailureOutcome ==
    /\ pc = "done"
    /\ \/ args.tool \in {"list_bases", "list_tables"} /\ server_state.token = ""
       \/ args.tool \in BaseTools /\ server_state.base_id = ""
       \/ /\ args.tool \in FailFastTools
          /\ \E k \in DOMAIN responses : "error" \in DOMAIN responses[k]

\* C21: every failure outcome of every tool is returned as a text that
\* begins with "Error:".
C21_FailuresBeginWithErrorColon == FailureOutcome => BeginsWithErrorColon(result)

\* What holds instead: every such failure is returned as a text, which
\* begins with "Error:", with "Error <doing something>:" or with "Please
\* provide an Airtable API token"
C21_FailuresAreTexts ==
    FailureOutcome =>
        /\ "literal" \in DOMAIN result
        /\ result.literal \in ErrorColonLiterals \cup OtherFailureLiterals

-----------------------------------------------------------------------------
(* update_schema and migrate_data with a set_base_id that runs while the
   invocation waits for an upstream call *)

InterleavedArgs ==
    {a \in MigrateArgs :
        /\ a.max_records = 1
        /\ a.source_table = "Contacts"
        /\ a.target_table = "People"
        /\ a.mapping_json.kind = "object" => Len(a.mapping_json.value) <= 1}
        \cup {a \in SchemaArgs :
                a.schema_json.kind = "object" =>
                    \A n \in DOMAIN a.schema_json.tables :
                        /\ "description" \notin DOMAIN a.schema_json.tables[n]
                        /\ "fields" \in DOMAIN a.schema_json.tables[n] =>
                              Len(a.schema_json.tables[n].fields) <= 1}

\* set_base_id of another invocation, between a request and its response
InterleavedSetBaseId ==
    /\ pc \notin {"start", "done"}
    /\ \E b \in {"", "appA", "appB"} :
        /\ b # server_state.base_id
        /\ server_state' = SetBaseIdTo(b)
    /\ UNCHANGED <<args, pc, base, calls, responses, result, migrateLocals, schemaLocals>>

InitInterleaved ==
    /\ server_state \in [base_id : Bases, token : Tokens]
    /\ args \in InterleavedArgs
    /\ pc = "start"
    /\ base = ""
    /\ calls = <<>>
    /\ responses = <<>>
    /\ field_mapping = <<>>
    /\ source_records = <<>>
    /\ target_records = <<>>
    /\ i = 0
    /\ migrated_count = 0
    /\ existing_tables = <<>>
    /\ ti = 0
    /\ fj = 0
    /\ fields_to_update = <<>>
    /\ update_results = <<>>
    /\ result = NoResult

NextInterleaved ==
    \/ NextMigrate
    \/ NextSchema
    \/ InterleavedSetBaseId

SpecInterleaved == InitInterleaved /\ [][NextInterleaved]_vars

\* The base an upstream call is addressed to
CallBase(c) == IF c.endpoint[1] = "meta/bases" THEN c.endpoint[2] ELSE c.endpoint[1]

\* C27: with a set_base_id running between two upstream calls, all calls of
\* one invocation of update_schema or migrate_data, those of the nested
\* create_tables and generate_field_mapping included, are addressed to the
\* base that was current when the invocation started.
C27_AllCallsToTheStartingBase ==
    \A k \in DOMAIN calls : CallBase(calls[k]) = base

\* C27 amended: the invocation keeps the base it read at its start, and
\* every call it issues is addressed to that base, except the table
\* creations of the nested create_tables, which are addressed to the base
\* that is current when create_tables is invoked.
C27_CallsToTheStartingBaseExceptCreations ==
    [][/\ base' = IF pc = "start" THEN server_state.base_id ELSE base
       /\ Len(calls') > Len(calls) =>
             LET c == calls'[Len(calls')]
             IN  /\ Len(calls') = Len(calls) + 1
                 /\ server_state' = server_state
                 /\ IF IsCreation(c) THEN CallBase(c) = server_state.base_id
                    ELSE CallBase(c) = base']_vars

\* C27 witness: an add-field call went to the starting base and a later
\* table creation to the base set in between
C27_Witness ==
    /\ args.tool = "update_schema"
    /\ \E j, k \in DOMAIN calls :
        /\ j < k
        /\ ~IsCreation(calls[j])
        /\ calls[j].method = "POST"
        /\ CallBase(calls[j]) = base
        /\ IsCreation(calls[k])
        /\ CallBase(calls[k]) = "appB"
    /\ base = "appA"

====
